---- MODULE Spec2Model ----
\* A model of the header-only argument parser src/src/c-args-parser.h:
\* cargs_dispatch and the level parser cargs_parse_opts_level as a state
\* machine over one dispatch call, with the command trees, callbacks and
\* handlers of src/tests/cargs.tests.c and src/examples as inputs.
\*
\* A C string is a sequence of one-character strings; a NULL pointer to a
\* string is the value NULL.  argv is a sequence of such tokens, argv[0]
\* being Arg(s, 0).
EXTENDS Integers, Sequences, FiniteSets, TLC

\* ------------------------------------------------------------------ bounds
\* The longest argv the model explores, the program name not counted.
MaxArgs == 4
\* The largest per-segment minimum of the generated positional schemas.
MaxPosMin == 2
\* The most subcommand names at the head of the argv of a deep descent.
MaxChain == 17
\* The longest argv of a call that is made before another call, the program
\* name not counted.
MaxFirstArgs == 2

\* ------------------------------------------------------- program constants
CARGS_ARG_NONE == 0
CARGS_ARG_REQUIRED == 1
CARGS_ARG_OPTIONAL == 2

CARGS_GRP_NONE == 0
CARGS_GRP_XOR == 1
CARGS_GRP_REQ_ONE == 2

CARGS_OK == 0
CARGS_DONE == 1
CARGS_ERR_UNKNOWN == -1
CARGS_ERR_MISSING_VAL == -2
CARGS_ERR_BAD_FORMAT == -3
CARGS_ERR_GROUP == -4
CARGS_ERR_POSITIONAL == -5
CARGS_ERR_TOO_MANY == -6

CARGS_POS_INF == 65535
\* enum { MAXG = 33 }: the group counters counts[0..32]
MAXG == 33
\* uint8_t counts[]: a counter wraps at 2^8
CountMod == 256
\* uint32_t xor_mask, req_mask: bits 0..31 survive the assignment
MaskBits == 32
\* char namebuf[96]
NameBufSize == 96
\* const char *path[16]
PathCap == 16

\* ------------------------------------------------------------- C strings
NULL == <<"NULL">>
\* The terminating '\0' of a C string.
NUL == "NUL"
\* s[k] of a C string s, k counted from 0; s[strlen(s)] is the terminator.
CharAt(s, k) == IF k < Len(s) THEN s[k + 1] ELSE NUL

\* s + k: the string from offset k on.
StrFrom(s, k) == SubSeq(s, k + 1, Len(s))

isdigit(c) == c \in {"0", "1", "2", "3", "4", "5", "6", "7", "8", "9"}

\* strchr(s, c) as the offset of the first c in s, or -1 for NULL.
RECURSIVE strchr_from(_, _, _)
strchr_from(s, c, k) ==
    IF k >= Len(s) THEN -1
    ELSE IF s[k + 1] = c THEN k
    ELSE strchr_from(s, c, k + 1)

strchr(s, c) == strchr_from(s, c, 0)

\* The token "--".
DashDash == <<"-", "-">>


\* ------------------------------------------------- the command tree (data)
\* cargs_opt; a missing long name is NULL, a missing short name, callback
\* or environment-variable name is "".
Opt(l, c, a, cb, e, d, g, gp) ==
    [long_name |-> l, short_name |-> c, arg |-> a, cb |-> cb, env |-> e,
     def |-> d, group |-> g, group_policy |-> gp]

\* cargs_pos, the label and description left out.
Pos(mi, ma) == [min |-> mi, max |-> ma]

\* cargs_cmd; a tree is a sequence of nodes, node 1 the root, and subs holds
\* the indices of the children.  run is the handler's name, "" for NULL.
Cmd(n, o, ch, al, ps, r) ==
    [name |-> n, opts |-> o, subs |-> ch, aliases |-> al, pos |-> ps, run |-> r]

\* cargs_env, the presentation fields (wrap_cols, color, out, err) left out.
EnvCfg(h, v, a, ver, auth) ==
    [auto_help |-> h, auto_version |-> v, auto_author |-> a,
     version |-> ver, author |-> auth]

n_help == <<"h", "e", "l", "p">>
n_version == <<"v", "e", "r", "s", "i", "o", "n">>
n_author == <<"a", "u", "t", "h", "o", "r">>
n_verbose == <<"v", "e", "r", "b", "o", "s", "e">>
n_jobs == <<"j", "o", "b", "s">>
n_limit == <<"l", "i", "m", "i", "t">>
n_json == <<"j", "s", "o", "n">>
n_yaml == <<"y", "a", "m", "l">>
n_light == <<"l", "i", "g", "h", "t">>
n_dark == <<"d", "a", "r", "k">>
n_remote == <<"r", "e", "m", "o", "t", "e">>
n_add == <<"a", "d", "d">>
n_remove == <<"r", "e", "m", "o", "v", "e">>
n_rm == <<"r", "m">>
v_10 == <<"1", "0">>
v_v1 == <<"v", "1">>
v_a == <<"a">>
n_format == <<"f", "o", "r", "m", "a", "t">>
n_out == <<"o", "u", "t">>
v_xml == <<"x", "m", "l">>
\* A long name that fills namebuf: NameBufSize characters.
n_wide == [k \in 1..NameBufSize |-> "w"]

\* fill_env of the tests: every builtin on, version "v1", author "a".
TestEnv == EnvCfg(TRUE, TRUE, TRUE, v_v1, v_a)
\* No builtin enabled.
PlainEnv == EnvCfg(FALSE, FALSE, FALSE, NULL, NULL)

\* build_root_basic: the root options of the tests.
root_opts ==
    << Opt(n_verbose, "V", CARGS_ARG_NONE, "cb_verbose", "", NULL, 0, CARGS_GRP_NONE),
       Opt(n_jobs, "j", CARGS_ARG_REQUIRED, "cb_jobs", "", NULL, 0, CARGS_GRP_NONE),
       Opt(n_limit, "l", CARGS_ARG_OPTIONAL, "cb_limit_opt", "", NULL, 0, CARGS_GRP_NONE),
       Opt(n_json, "", CARGS_ARG_NONE, "cb_json", "", NULL, 1, CARGS_GRP_XOR),
       Opt(n_yaml, "", CARGS_ARG_NONE, "cb_yaml", "", NULL, 1, CARGS_GRP_XOR) >>

\* build_root_basic: root -> remote -> { add NAME URL, remove|rm NAME }.
BasicTree ==
    << Cmd(NULL, root_opts, <<2>>, <<>>, <<>>, "run_root"),
       Cmd(n_remote, <<>>, <<3, 4>>, <<>>, <<>>, ""),
       Cmd(n_add, <<>>, <<>>, <<>>, <<Pos(1, 1), Pos(1, 1)>>, "run_remote_add"),
       Cmd(n_remove, <<>>, <<>>, <<n_rm>>, <<Pos(1, 1)>>, "run_remote_rm") >>

\* The group trees of test_group_xor, build_root_req_one and
\* examples/04_groups.c: two None-kind options in group g under one policy;
\* the first has the static default d (NULL for none).
GroupTree(g, policy, d) ==
    << Cmd(NULL,
           << Opt(n_light, "", CARGS_ARG_NONE, "cb_light", "", d, g, policy),
              Opt(n_dark, "", CARGS_ARG_NONE, "cb_dark", "", NULL, g, policy) >>,
           <<>>, <<>>, <<>>, "run_root") >>

\* Options with an environment variable and a default, shaped as those of
\* examples/06_env_defaults.c, here in group g ("env/default counts").
EnvTree(g, policy) ==
    << Cmd(NULL,
           << Opt(n_jobs, "j", CARGS_ARG_REQUIRED, "cb_jobs", "JOBS", <<"4">>, g, policy),
              Opt(n_limit, "l", CARGS_ARG_OPTIONAL, "cb_limit_opt", "LEVEL", NULL, g, policy) >>,
           <<>>, <<>>, <<>>, "run_root") >>

\* A root whose only option has a long name of NameBufSize characters.
WideTree ==
    << Cmd(NULL,
           << Opt(n_wide, "w", CARGS_ARG_REQUIRED, "cb_jobs", "", NULL, 0, CARGS_GRP_NONE) >>,
           <<>>, <<>>, <<>>, "run_root") >>

\* The format option of examples/06_env_defaults.c, Required-kind with the
\* environment variable FMT and the default "json", beside a flag.
FormatTree ==
    << Cmd(NULL,
           << Opt(n_format, "", CARGS_ARG_REQUIRED, "cb_format", "FMT", n_json, 0, CARGS_GRP_NONE),
              Opt(n_verbose, "V", CARGS_ARG_NONE, "cb_verbose", "", NULL, 0, CARGS_GRP_NONE) >>,
           <<>>, <<>>, <<>>, "run_root") >>

\* A root and a child that each declare options of their own ("options for
\* this level" of cargs_cmd): the flag V at the root; at the child "add" the
\* Required-kind jobs and a flag that has the names of the version builtin.
ScopedTree ==
    << Cmd(NULL,
           << Opt(n_verbose, "V", CARGS_ARG_NONE, "cb_verbose", "", NULL, 0, CARGS_GRP_NONE) >>,
           <<2>>, <<>>, <<>>, "run_root"),
       Cmd(n_add,
           << Opt(n_jobs, "j", CARGS_ARG_REQUIRED, "cb_jobs", "", NULL, 0, CARGS_GRP_NONE),
              Opt(n_version, "v", CARGS_ARG_NONE, "cb_json", "", NULL, 0, CARGS_GRP_NONE) >>,
           <<>>, <<>>, <<>>, "run_remote_add") >>

\* A root with a flag and the Required-kind out, whose callback takes any
\* text, above the child "add".
ValueTree ==
    << Cmd(NULL,
           << Opt(n_verbose, "V", CARGS_ARG_NONE, "cb_verbose", "", NULL, 0, CARGS_GRP_NONE),
              Opt(n_out, "o", CARGS_ARG_REQUIRED, "cb_out", "", NULL, 0, CARGS_GRP_NONE) >>,
           <<2>>, <<>>, <<>>, "run_root"),
       Cmd(n_add, <<>>, <<>>, <<>>, <<>>, "run_remote_add") >>

\* A root with two None-kind options in group g under one policy, above the
\* child "add", which has an option with a static default and a flag.
ParentGroupTree(g, policy) ==
    << Cmd(NULL,
           << Opt(n_light, "", CARGS_ARG_NONE, "cb_light", "", NULL, g, policy),
              Opt(n_dark, "", CARGS_ARG_NONE, "cb_dark", "", NULL, g, policy) >>,
           <<2>>, <<>>, <<>>, "run_root"),
       Cmd(n_add,
           << Opt(n_jobs, "j", CARGS_ARG_REQUIRED, "cb_jobs", "", <<"4">>, 0, CARGS_GRP_NONE),
              Opt(n_verbose, "V", CARGS_ARG_NONE, "cb_verbose", "", NULL, 0, CARGS_GRP_NONE) >>,
           <<>>, <<>>, <<>>, "run_remote_add") >>

\* A root that takes one positional above the child "add" that takes two.
NestedPosTree ==
    << Cmd(NULL, <<>>, <<2>>, <<>>, <<Pos(1, 1)>>, "run_root"),
       Cmd(n_add, <<>>, <<>>, <<>>, <<Pos(2, 2)>>, "run_remote_add") >>

\* Three None-kind options with short names only, a and b in the
\* MutuallyExclusive group 1 and c in the ExactlyOne group 2, beside the
\* value-taking options of the tests.
FlagsTree ==
    << Cmd(NULL,
           << Opt(NULL, "a", CARGS_ARG_NONE, "cb_a", "", NULL, 1, CARGS_GRP_XOR),
              Opt(NULL, "b", CARGS_ARG_NONE, "cb_b", "", NULL, 1, CARGS_GRP_XOR),
              Opt(NULL, "c", CARGS_ARG_NONE, "cb_c", "", NULL, 2, CARGS_GRP_REQ_ONE),
              Opt(n_jobs, "j", CARGS_ARG_REQUIRED, "cb_jobs", "", NULL, 0, CARGS_GRP_NONE),
              Opt(n_limit, "l", CARGS_ARG_OPTIONAL, "cb_limit_opt", "", NULL, 0, CARGS_GRP_NONE) >>,
           <<>>, <<>>, <<>>, "run_root") >>

\* A root and a child that both declare None-kind options with the names of
\* the builtins: help/h, version/v and author.
shadow_opts ==
    << Opt(n_help, "h", CARGS_ARG_NONE, "cb_help", "", NULL, 0, CARGS_GRP_NONE),
       Opt(n_version, "v", CARGS_ARG_NONE, "cb_version", "", NULL, 0, CARGS_GRP_NONE),
       Opt(n_author, "", CARGS_ARG_NONE, "cb_author", "", NULL, 0, CARGS_GRP_NONE) >>

ShadowTree ==
    << Cmd(NULL, shadow_opts, <<2>>, <<>>, <<>>, "run_root"),
       Cmd(n_add, shadow_opts, <<>>, <<>>, <<>>, "run_remote_add") >>

\* A root with two options that have a default and a flag, above the
\* children "add", with a default and a flag of its own, and "remove", with a
\* default.
OrderTree ==
    << Cmd(NULL,
           << Opt(n_format, "", CARGS_ARG_REQUIRED, "cb_format", "FMT", n_json, 0, CARGS_GRP_NONE),
              Opt(n_jobs, "j", CARGS_ARG_REQUIRED, "cb_jobs", "", <<"4">>, 0, CARGS_GRP_NONE),
              Opt(n_verbose, "V", CARGS_ARG_NONE, "cb_verbose", "", NULL, 0, CARGS_GRP_NONE) >>,
           <<2, 3>>, <<>>, <<>>, "run_root"),
       Cmd(n_add,
           << Opt(n_jobs, "j", CARGS_ARG_REQUIRED, "cb_jobs", "", <<"4">>, 0, CARGS_GRP_NONE),
              Opt(n_verbose, "V", CARGS_ARG_NONE, "cb_verbose", "", NULL, 0, CARGS_GRP_NONE) >>,
           <<>>, <<>>, <<>>, "run_remote_add"),
       Cmd(n_remove,
           << Opt(n_jobs, "j", CARGS_ARG_REQUIRED, "cb_jobs", "", <<"4">>, 0, CARGS_GRP_NONE) >>,
           <<>>, <<>>, <<>>, "run_remote_rm") >>

\* A chain of MaxChain + 1 nodes, each below the root named "add" and the
\* only child of the node before it.  Every node has the flag V and a flag
\* with the names of the version builtin; the nodes more than PathCap levels
\* below the root take exactly one positional.
ChainTree ==
    [k \in 1..(MaxChain + 1) |->
        Cmd(IF k = 1 THEN NULL ELSE n_add,
            << Opt(n_verbose, "V", CARGS_ARG_NONE, "cb_verbose", "", NULL, 0, CARGS_GRP_NONE),
               Opt(n_version, "v", CARGS_ARG_NONE, "cb_json", "", NULL, 0, CARGS_GRP_NONE) >>,
            IF k <= MaxChain THEN <<k + 1>> ELSE <<>>,
            <<>>,
            IF k > PathCap + 1 THEN <<Pos(1, 1)>> ELSE <<>>,
            IF k = 1 THEN "run_root" ELSE "run_remote_add")]

\* A root and its child "add" that use the same group id: the flag a of
\* the root and the flag b of the child are both in the MutuallyExclusive
\* group 1.
SameGroupTree ==
    << Cmd(NULL,
           << Opt(NULL, "a", CARGS_ARG_NONE, "cb_a", "", NULL, 1, CARGS_GRP_XOR) >>,
           <<2>>, <<>>, <<>>, "run_root"),
       Cmd(n_add,
           << Opt(NULL, "b", CARGS_ARG_NONE, "cb_b", "", NULL, 1, CARGS_GRP_XOR) >>,
           <<>>, <<>>, <<>>, "run_remote_add") >>

\* A root with the positional schema p and no option (examples/02_cp_like.c).
PosTree(ps) == << Cmd(NULL, <<>>, <<>>, <<>>, ps, "run_cp") >>


\* ------------------------------------------------ callbacks and handlers
\* strtol(v, &end, 10) reads all of v: an optional sign, then digits only.
IsDecimal(v) ==
    LET d == IF Len(v) > 0 /\ v[1] \in {"+", "-"} THEN StrFrom(v, 1) ELSE v
    IN  Len(d) > 0 /\ \A k \in 1..Len(d) : isdigit(d[k])

\* cb_jobs of the tests: -2 without a value, -3 for a non-decimal one.
cb_jobs(val) ==
    IF val = NULL THEN CARGS_ERR_MISSING_VAL
    ELSE IF ~IsDecimal(val) THEN CARGS_ERR_BAD_FORMAT
    ELSE CARGS_OK

\* cb_limit_opt of the tests: a missing value is accepted.
cb_limit_opt(val) ==
    IF val = NULL THEN CARGS_OK
    ELSE IF ~IsDecimal(val) THEN CARGS_ERR_BAD_FORMAT
    ELSE CARGS_OK

\* cb_format of examples/06_env_defaults.c: -1 for an unknown format.
cb_format(val) ==
    IF val = NULL THEN CARGS_ERR_MISSING_VAL
    ELSE IF val \in {n_json, n_yaml} THEN CARGS_OK
    ELSE -1

\* cb_out of examples/06_env_defaults.c: any value but an absent or an
\* empty one is accepted.
cb_out(val) ==
    IF val = NULL \/ val = <<>> THEN CARGS_ERR_MISSING_VAL ELSE CARGS_OK

\* o->cb(val, user): the return value of the option callback named cb; the
\* other callbacks of the tests (cb_verbose, cb_json, ...) return CARGS_OK.
CallCb(cb, val) ==
    CASE cb = "cb_jobs" -> cb_jobs(val)
      [] cb = "cb_out" -> cb_out(val)
      [] cb = "cb_limit_opt" -> cb_limit_opt(val)
      [] cb = "cb_format" -> cb_format(val)
      [] OTHER -> CARGS_OK

\* run_cp of examples/02_cp_like.c: 1 when it gets fewer than two
\* positionals.
run_cp(args) == IF Len(args) < 2 THEN 1 ELSE CARGS_OK

\* cmd->run(argc - i, &argv[i], user): the return value of the handler
\* named run; the handlers of the tests return CARGS_OK.
CallRun(run, args) ==
    CASE run = "run_cp" -> run_cp(args)
      [] OTHER -> CARGS_OK

\* What the caller observes: one entry per callback, handler or builtin
\* output, in the order they happen.  src is "env" for an overlay callback
\* and "cli" for one made for a command-line token.
\* opt is the index of the option among the node's options, 0 for none.
Event(ev, node, opt, name, val, args, src) ==
    [ev |-> ev, node |-> node, opt |-> opt, name |-> name, val |-> val,
     args |-> args, src |-> src]

\* getenv(name) in the process environment environ.
getenv(environ, name) ==
    IF name \in DOMAIN environ THEN environ[name] ELSE NULL

NoEnviron == [x \in {} |-> NULL]


\* ------------------------------------------------------------- the inputs
Long(n) == DashDash \o n
LongEq(n, v) == DashDash \o n \o <<"=">> \o v
Short(c) == <<"-", c>>
ShortAtt(c, v) == <<"-", c>> \o v

\* One input family: a command tree, a cargs_env, a process environment,
\* the tokens argv is drawn from, and by how much its argv is shorter than
\* MaxArgs.
Scenario(tree, env, environ, tokens, cut) ==
    [tree |-> tree, env |-> env, environ |-> environ, tokens |-> tokens,
     cut |-> cut]

\* Subcommands, aliases, "--" and positionals on the tree of the tests.
SubScenarios ==
    << Scenario(BasicTree, TestEnv, NoEnviron,
                {DashDash, n_remote, n_rm, n_remove, n_add, <<"x">>}, 0) >>

\* The forms of a Required-kind option (test_required_forms).
ReqScenarios ==
    << Scenario(BasicTree, TestEnv, NoEnviron,
                {Long(n_jobs), Short("j"), LongEq(n_jobs, v_10),
                 ShortAtt("j", v_10), v_10, <<"-", "1">>, DashDash,
                 Short("V")}, 1) >>

\* The forms of an Optional-kind option (test_optional_forms) and the tokens
\* that may follow it.
OptScenarios ==
    << Scenario(BasicTree, TestEnv, NoEnviron,
                {Long(n_limit), Short("l"), <<"-", "V", "l">>, <<"1", "2">>,
                 <<"-", "1", "2">>, <<"+", "3">>, <<"-", ".", "5">>,
                 <<"-", ".">>, <<"-", "0", "x">>, <<"+">>, <<>>, DashDash,
                 Short("V")}, 1) >>

\* The k-th of the n-fold choices of a family, k from 0: its digit in the
\* mixed-radix numeral whose lower digits have the radices in below.
Digit(k, below, n) == ((k \div below) % n) + 1

GroupIds == <<1, 2, MAXG - 1>>
Policies == <<CARGS_GRP_XOR, CARGS_GRP_REQ_ONE>>
Defaults == <<NULL, <<"1">>>>

\* Groups 1, 2 and 32 under both policies, with and without a default.
GroupScenarios ==
    [k \in 1..(Len(GroupIds) * Len(Policies) * Len(Defaults)) |->
        Scenario(GroupTree(GroupIds[Digit(k - 1, Len(Policies) * Len(Defaults), Len(GroupIds))],
                           Policies[Digit(k - 1, Len(Defaults), Len(Policies))],
                           Defaults[Digit(k - 1, 1, Len(Defaults))]),
                 TestEnv, NoEnviron, {Long(n_light), Long(n_dark), <<"x">>}, 0)]

EnvGroupIds == <<1, MAXG - 1>>
Environs ==
    << NoEnviron, [JOBS |-> <<"8">>], [LEVEL |-> <<"2">>],
       [JOBS |-> <<"8">>, LEVEL |-> <<"2">>] >>

\* Environment values and defaults of grouped options.
EnvScenarios ==
    [k \in 1..(Len(EnvGroupIds) * Len(Policies) * Len(Environs)) |->
        Scenario(EnvTree(EnvGroupIds[Digit(k - 1, Len(Policies) * Len(Environs), Len(EnvGroupIds))],
                         Policies[Digit(k - 1, Len(Environs), Len(Policies))]),
                 TestEnv, Environs[Digit(k - 1, 1, Len(Environs))],
                 {Short("j"), <<"5">>, Long(n_limit)}, 1)]

\* A long name as wide as namebuf.
WideScenarios ==
    << Scenario(WideTree, PlainEnv, NoEnviron,
                {Long(n_wide), LongEq(n_wide, <<"5">>), Short("w"),
                 ShortAtt("w", <<"5">>), <<"5">>,
                 LongEq(Append(n_wide, "w"), <<"5">>)}, 2) >>

FormatEnvirons == << NoEnviron, [FMT |-> n_yaml], [FMT |-> v_xml] >>

\* A callback that rejects its value with -1, on the command line and from
\* the environment.
FormatScenarios ==
    [k \in 1..Len(FormatEnvirons) |->
        Scenario(FormatTree, TestEnv, FormatEnvirons[k],
                 {Long(n_format), LongEq(n_format, v_xml), n_yaml, v_xml,
                  Short("V")}, 1)]

\* Short clusters and unknown options (test_unknown_and_missing).
ClusterScenarios ==
    << Scenario(BasicTree, TestEnv, NoEnviron,
                {<<"-", "V", "j">>, <<"-", "V", "Z">>, Short("Z"),
                 Long(<<"z">>), LongEq(<<"z">>, v_10), Long(n_jobs),
                 ShortAtt("j", <<"=", "1", "0">>)}, 2) >>

\* Options of the parent after the subcommand token, options of the child
\* before it.
ScopedScenarios ==
    << Scenario(ScopedTree, TestEnv, NoEnviron,
                {n_add, Short("V"), Long(n_verbose), Short("j"), Long(n_jobs),
                 v_10}, 1) >>

\* The builtins at the root and below it, where the child declares an
\* option named version.
LevelScenarios ==
    << Scenario(ScopedTree, TestEnv, NoEnviron,
                {n_add, Long(n_version), Short("v"), Long(n_author),
                 Long(n_help), Short("h")}, 2) >>

\* A Required-kind option before an option, a "--" and a subcommand name.
ValueScenarios ==
    << Scenario(ValueTree, TestEnv, NoEnviron,
                {Long(n_out), Short("o"), <<"-", "V", "o">>, Short("V"),
                 DashDash, n_add}, 2) >>

\* Grouped options of a parent before the name of its child, groups 1 and
\* 32 under both policies.
ParentGroupScenarios ==
    [k \in 1..(Len(EnvGroupIds) * Len(Policies)) |->
        Scenario(ParentGroupTree(EnvGroupIds[Digit(k - 1, Len(Policies), Len(EnvGroupIds))],
                                 Policies[Digit(k - 1, 1, Len(Policies))]),
                 TestEnv, NoEnviron, {Long(n_light), Long(n_dark), n_add}, 1)]

\* Leftover tokens below a parent that has a positional schema of its own.
NestedPosScenarios ==
    << Scenario(NestedPosTree, TestEnv, NoEnviron, {n_add, <<"x">>}, 1) >>

\* Clusters of flags, with and without a value-taking option at the end
\* (test_grouped_shorts).
FlagScenarios ==
    << Scenario(FlagsTree, TestEnv, NoEnviron,
                {<<"-", "a", "b", "c">>, <<"-", "c", "a">>,
                 <<"-", "c", "j", "1", "0">>, <<"-", "c", "j", "x">>,
                 <<"-", "a", "j">>, <<"-", "c", "l", "-", "x">>, v_10}, 2) >>

\* The help character inside clusters, behind a flag and behind the
\* value-taking options of the tests.
HelpClusterScenarios ==
    << Scenario(BasicTree, TestEnv, NoEnviron,
                {<<"-", "V", "h">>, <<"-", "j", "h">>, <<"-", "l", "h">>,
                 <<"-", "V", "j", "h">>, <<"-", "h", "j">>, <<"-", "V", "V", "h", "Z">>,
                 <<"x">>}, 2) >>

\* Long options with an attached value: empty, with a second "=", and
\* given to a None-kind option.
EqualsScenarios ==
    << Scenario(BasicTree, TestEnv, NoEnviron,
                {LongEq(n_verbose, <<>>), LongEq(n_verbose, <<"x">>),
                 LongEq(n_jobs, <<>>), LongEq(n_jobs, <<"1", "=", "0">>),
                 LongEq(n_limit, <<>>), LongEq(n_limit, <<"=">>), v_10}, 2),
       Scenario(ValueTree, TestEnv, NoEnviron,
                {LongEq(n_out, <<>>), LongEq(n_out, <<"a", "=", "b">>),
                 LongEq(n_out, <<"=">>), LongEq(n_verbose, <<"=">>), n_add}, 2) >>

BuiltinEnvs == << TestEnv, PlainEnv, EnvCfg(TRUE, TRUE, TRUE, NULL, NULL) >>

\* Overlay and command-line callbacks at a parent and at one of its two
\* children.
OrderScenarios ==
    << Scenario(OrderTree, TestEnv, NoEnviron,
                {Short("V"), n_add, n_remove, <<"x">>}, 1) >>

\* The chain, its options, the builtins and a positional.
ChainScenarios ==
    << Scenario(ChainTree, TestEnv, NoEnviron,
                {n_add, Short("V"), Long(n_version), Long(n_author), <<"x">>}, 2) >>

\* The token "-" before and behind options, "--", a positional and a
\* subcommand name.
DashScenarios ==
    << Scenario(ScopedTree, TestEnv, NoEnviron,
                {<<"-">>, Short("j"), DashDash, <<"x">>, n_add}, 1) >>

\* One group id at a parent and at its child.
SameGroupScenarios ==
    << Scenario(SameGroupTree, TestEnv, NoEnviron,
                {Short("a"), Short("b"), n_add}, 1) >>

\* Options named as the builtins, the builtins enabled, disabled, and
\* enabled without version and author.
ShadowScenarios ==
    [k \in 1..Len(BuiltinEnvs) |->
        Scenario(ShadowTree, BuiltinEnvs[k], NoEnviron,
                 {Long(n_help), Short("h"), Long(n_version), Short("v"),
                  Long(n_author), LongEq(n_help, <<"x">>), n_add}, 2)]

\* The builtins, enabled, disabled, and enabled without version and author.
BuiltinScenarios ==
    [k \in 1..Len(BuiltinEnvs) |->
        Scenario(BasicTree, BuiltinEnvs[k], NoEnviron,
                 {Long(n_help), Short("h"), Long(n_version), Short("v"),
                  Long(n_author), n_remote, Short("V")}, 1)]

\* The segments {min, max} with min <= MaxPosMin and max 1, 2 or unbounded.
PosMaxes == <<1, 2, CARGS_POS_INF>>

SegmentFits(q) == q.max >= q.min

PosSegments ==
    SelectSeq([k \in 1..((MaxPosMin + 1) * Len(PosMaxes)) |->
                  Pos((k - 1) \div Len(PosMaxes), PosMaxes[Digit(k - 1, 1, Len(PosMaxes))])],
              SegmentFits)

\* Positional schemas of up to two segments.
PosSchemas ==
    LET n == Len(PosSegments)
    IN  << <<>> >> \o [k \in 1..n |-> <<PosSegments[k]>>]
            \o [k \in 1..(n * n) |->
                   <<PosSegments[Digit(k - 1, n, n)], PosSegments[Digit(k - 1, 1, n)]>>]

PosScenarios ==
    [k \in 1..Len(PosSchemas) |->
        Scenario(PosTree(PosSchemas[k]), TestEnv, NoEnviron, {<<"x">>}, 0)]

ScenarioSeq ==
    SubScenarios \o ReqScenarios \o OptScenarios \o GroupScenarios
        \o EnvScenarios \o WideScenarios \o BuiltinScenarios \o PosScenarios
        \o FormatScenarios \o ClusterScenarios \o ScopedScenarios
        \o LevelScenarios \o ValueScenarios \o ParentGroupScenarios
        \o NestedPosScenarios \o FlagScenarios \o HelpClusterScenarios
        \o EqualsScenarios \o ShadowScenarios \o SameGroupScenarios
        \o OrderScenarios \o ChainScenarios \o DashScenarios

\* Every sequence over S of length at most n.
RECURSIVE SeqsUpTo(_, _)
SeqsUpTo(S, n) ==
    IF n <= 0 THEN {<<>>}
    ELSE LET shorter == SeqsUpTo(S, n - 1)
         IN  shorter \cup { Append(q, x) : q \in shorter, x \in S }

\* ------------------------------------------------------------- the state
VARIABLES
    scn,       \* the inputs of the call: an index into ScenarioSeq
    argv,      \* argv[0..argc-1], argv[0] the program name
    pc,        \* where the call is
    cmd,       \* cargs_dispatch: the current node
    depth,     \* cargs_dispatch: depth
    path,      \* cargs_dispatch: path[0..depth-1]
    idx,       \* cargs_dispatch: i, which the level parser reads and writes as *idx
    rc,        \* the value cargs_dispatch returned (pc = "done")
    lrc,       \* the value cargs_parse_opts_level returned (pc = "ret")
    counts,    \* cargs_parse_opts_level: counts[1..32]
    xor_mask,  \* cargs_parse_opts_level: the set bits of xor_mask
    req_mask,  \* cargs_parse_opts_level: the set bits of req_mask
    i,         \* cargs_parse_opts_level: i
    cl,        \* cargs_parse_opts_level: the index of the short cluster arg
    p,         \* cargs_parse_opts_level: p as an offset into arg
    log,       \* what the callbacks, handlers and builtins were called with
    dashdash,  \* the index of the "--" the level parser consumed, 0 for none
    conv       \* a call of a typed helper: its arguments and what it returned

vars ==
    <<scn, argv, pc, cmd, depth, path, idx, rc, lrc, counts, xor_mask,
      req_mask, i, cl, p, log, dashdash, conv>>

\* The state as one record, for the operators that translate the code.
Cur ==
    [scn |-> scn, argv |-> argv, pc |-> pc, cmd |-> cmd, depth |-> depth,
     path |-> path, idx |-> idx, rc |-> rc, lrc |-> lrc, counts |-> counts,
     xor_mask |-> xor_mask, req_mask |-> req_mask, i |-> i, cl |-> cl,
     p |-> p, log |-> log, dashdash |-> dashdash]

\* The unprimed counterpart of Set, for Init.
Is(t) ==
    /\ scn = t.scn /\ argv = t.argv /\ pc = t.pc /\ cmd = t.cmd
    /\ depth = t.depth /\ path = t.path /\ idx = t.idx /\ rc = t.rc
    /\ lrc = t.lrc /\ counts = t.counts /\ xor_mask = t.xor_mask
    /\ req_mask = t.req_mask /\ i = t.i /\ cl = t.cl /\ p = t.p
    /\ log = t.log /\ dashdash = t.dashdash

Set(t) ==
    /\ scn' = t.scn /\ argv' = t.argv /\ pc' = t.pc /\ cmd' = t.cmd
    /\ depth' = t.depth /\ path' = t.path /\ idx' = t.idx /\ rc' = t.rc
    /\ lrc' = t.lrc /\ counts' = t.counts /\ xor_mask' = t.xor_mask
    /\ req_mask' = t.req_mask /\ i' = t.i /\ cl' = t.cl /\ p' = t.p
    /\ log' = t.log /\ dashdash' = t.dashdash
    /\ conv' = conv

\* counts[1..32], all zero; counts[0] is never read or written.
ZeroCounts == [g \in 1..(MAXG - 1) |-> 0]

\* The state at the call of cargs_dispatch(env, root, argc, argv, user).
Start(k, a) ==
    [scn |-> k, argv |-> a, pc |-> "entry", cmd |-> 1, depth |-> 0,
     path |-> <<>>, idx |-> 0, rc |-> CARGS_OK, lrc |-> CARGS_OK,
     counts |-> ZeroCounts, xor_mask |-> {}, req_mask |-> {}, i |-> 0,
     cl |-> 0, p |-> 0, log |-> <<>>, dashdash |-> 0]

Tree(s) == ScenarioSeq[s.scn].tree
Node(s) == Tree(s)[s.cmd]
Env(s) == ScenarioSeq[s.scn].env
Environ(s) == ScenarioSeq[s.scn].environ
argc(s) == Len(s.argv)
Arg(s, k) == s.argv[k + 1]


\* --------------------------------------------------------------- lookups
\* cargs_find_long: the index of the first option with this long name, 0
\* for NULL.
RECURSIVE find_long_from(_, _, _)
find_long_from(opts, name, k) ==
    IF k > Len(opts) THEN 0
    ELSE IF opts[k].long_name # NULL /\ opts[k].long_name = name THEN k
    ELSE find_long_from(opts, name, k + 1)

cargs_find_long(opts, name) == find_long_from(opts, name, 1)

\* cargs_find_short: the index of the first option with this short name, 0
\* for NULL.
RECURSIVE find_short_from(_, _, _)
find_short_from(opts, c, k) ==
    IF k > Len(opts) THEN 0
    ELSE IF opts[k].short_name = c THEN k
    ELSE find_short_from(opts, c, k + 1)

cargs_find_short(opts, c) ==
    IF c = NUL THEN 0 ELSE find_short_from(opts, c, 1)

\* Mutant of cargs_token_looks_numeric: the ".5" rule forgotten.
looks_numeric_without_fraction(s) ==
    IF s = NULL \/ CharAt(s, 0) = NUL THEN FALSE
    ELSE IF CharAt(s, 0) \in {"+", "-"} THEN isdigit(CharAt(s, 1))
    ELSE isdigit(CharAt(s, 0))

\* cargs_token_looks_numeric
cargs_token_looks_numeric(s) ==
    IF s = NULL \/ CharAt(s, 0) = NUL THEN FALSE
    ELSE IF CharAt(s, 0) \in {"+", "-"} THEN
        IF isdigit(CharAt(s, 1)) THEN TRUE
        ELSE IF CharAt(s, 1) = "." /\ isdigit(CharAt(s, 2)) THEN TRUE
        ELSE IF CharAt(s, 1) = "0" /\ CharAt(s, 2) \in {"x", "X"} THEN TRUE
        ELSE FALSE
    ELSE isdigit(CharAt(s, 0))

\* The lookahead test of an Optional-kind option on the next token nxt:
\* strcmp(nxt, "--") != 0 && (nxt[0] != '-' || cargs_token_looks_numeric(nxt))
TakesNext(nxt) ==
    nxt # DashDash /\ (CharAt(nxt, 0) # "-" \/ cargs_token_looks_numeric(nxt))

\* Mutant of find_sub_from: the aliases are not compared.
RECURSIVE find_sub_by_name_only(_, _, _, _)
find_sub_by_name_only(tree, subs, name, k) ==
    IF k > Len(subs) THEN 0
    ELSE IF tree[subs[k]].name # NULL /\ tree[subs[k]].name = name THEN subs[k]
    ELSE find_sub_by_name_only(tree, subs, name, k + 1)

\* cargs_find_sub: the node index of the first child whose name or alias is
\* this token, 0 for NULL.
RECURSIVE find_sub_from(_, _, _, _)
find_sub_from(tree, subs, name, k) ==
    IF k > Len(subs) THEN 0
    ELSE LET c == tree[subs[k]]
         IN  IF c.name # NULL /\ c.name = name THEN subs[k]
             ELSE IF \E a \in 1..Len(c.aliases) : c.aliases[a] = name THEN subs[k]
             ELSE find_sub_from(tree, subs, name, k + 1)

cargs_find_sub(tree, node, name) == find_sub_from(tree, node.subs, name, 1)

\* cargs_validate_positional: sum_min and sum_max over the first n segments.
RECURSIVE SumMin(_, _)
SumMin(pos, n) == IF n = 0 THEN 0 ELSE SumMin(pos, n - 1) + pos[n].min

RECURSIVE SumMax(_, _)
SumMax(pos, n) ==
    IF n = 0 THEN 0
    ELSE IF pos[n].max = CARGS_POS_INF THEN SumMax(pos, n - 1)
    ELSE SumMax(pos, n - 1) + pos[n].max

\* Mutant of cargs_validate_positional: argc <= sum_min instead of <.
validate_positional_off_by_one(node, n) ==
    IF Len(node.pos) = 0 THEN CARGS_OK
    ELSE LET sum_min == SumMin(node.pos, Len(node.pos))
             sum_max == SumMax(node.pos, Len(node.pos))
             has_inf == \E k \in 1..Len(node.pos) : node.pos[k].max = CARGS_POS_INF
         IN  IF n <= sum_min THEN CARGS_ERR_POSITIONAL
             ELSE IF ~has_inf /\ n > sum_max THEN CARGS_ERR_TOO_MANY
             ELSE CARGS_OK

\* cargs_validate_positional for n leftover tokens.
cargs_validate_positional(node, n) ==
    IF Len(node.pos) = 0 THEN CARGS_OK
    ELSE LET sum_min == SumMin(node.pos, Len(node.pos))
             sum_max == SumMax(node.pos, Len(node.pos))
             has_inf == \E k \in 1..Len(node.pos) : node.pos[k].max = CARGS_POS_INF
         IN  IF n < sum_min THEN CARGS_ERR_POSITIONAL
             ELSE IF ~has_inf /\ n > sum_max THEN CARGS_ERR_TOO_MANY
             ELSE CARGS_OK

\* ------------------------------------------------- cargs_parse_opts_level
\* mask |= (1ull << g), the result stored in a uint32_t.
OrBit(mask, g) == { b \in mask \cup {g} : b < MaskBits }

\* mask & (1ull << g)
TestBit(mask, g) == g \in mask

\* The mask of the groups declared with this policy by the first n options.
RECURSIVE PolicyMask(_, _, _)
PolicyMask(opts, policy, n) ==
    IF n = 0 THEN {}
    ELSE LET m == PolicyMask(opts, policy, n - 1)
             o == opts[n]
         IN  IF o.group > 0 /\ o.group < MAXG /\ o.group_policy = policy
             THEN OrBit(m, o.group)
             ELSE m

\* if (o->group && o->group < MAXG) counts[o->group]++;
Bump(c, g) ==
    IF g # 0 /\ g < MAXG THEN [c EXCEPT ![g] = (@ + 1) % CountMod] ELSE c

\* Mutant of apply_env_defaults_from: the static default is preferred to
\* the environment variable.
RECURSIVE apply_defaults_before_env(_, _)
apply_defaults_before_env(s, k) ==
    IF k > Len(Node(s).opts) THEN s
    ELSE LET o == Node(s).opts[k]
             ev == IF o.env # "" THEN getenv(Environ(s), o.env) ELSE NULL
             val == IF o.def # NULL THEN o.def ELSE ev
         IN  IF val # NULL /\ o.cb # ""
             THEN apply_defaults_before_env(
                      [s EXCEPT !.log = Append(@, Event("cb", s.cmd, k, o.cb, val, <<>>, "env")),
                                !.counts = Bump(@, o.group)], k + 1)
             ELSE apply_defaults_before_env(s, k + 1)

\* cargs_apply_env_defaults_level, from option k on.
RECURSIVE apply_env_defaults_from(_, _)
apply_env_defaults_from(s, k) ==
    IF k > Len(Node(s).opts) THEN s
    ELSE LET o == Node(s).opts[k]
             ev == IF o.env # "" THEN getenv(Environ(s), o.env) ELSE NULL
             val == IF ev = NULL /\ o.def # NULL THEN o.def ELSE ev
         IN  IF val # NULL /\ o.cb # ""
             THEN apply_env_defaults_from(
                      [s EXCEPT !.log = Append(@, Event("cb", s.cmd, k, o.cb, val, <<>>, "env")),
                                !.counts = Bump(@, o.group)], k + 1)
             ELSE apply_env_defaults_from(s, k + 1)

\* Mutant of cargs_apply_env_defaults_level: the overlay of a level below
\* the root is applied a second time.
apply_env_defaults_again(s) ==
    IF s.cmd = 1 THEN apply_env_defaults_from(s, 1)
    ELSE apply_env_defaults_from(apply_env_defaults_from(s, 1), 1)

cargs_apply_env_defaults_level(s) == apply_env_defaults_from(s, 1)

\* Mutant of ParseLevelEnter: the counters are not zeroed, the level goes
\* on with the counts it finds.
ParseLevelEnterKeepingCounts(s) ==
    LET opts == Node(s).opts
        z == [s EXCEPT !.xor_mask = PolicyMask(opts, CARGS_GRP_XOR, Len(opts)),
                       !.req_mask = PolicyMask(opts, CARGS_GRP_REQ_ONE, Len(opts))]
    IN  [cargs_apply_env_defaults_level(z) EXCEPT !.i = s.idx, !.pc = "scan"]

\* The entry of cargs_parse_opts_level: the counters, the masks, the overlay.
ParseLevelEnter(s) ==
    LET opts == Node(s).opts
        z == [s EXCEPT !.counts = ZeroCounts,
                       !.xor_mask = PolicyMask(opts, CARGS_GRP_XOR, Len(opts)),
                       !.req_mask = PolicyMask(opts, CARGS_GRP_REQ_ONE, Len(opts))]
    IN  [cargs_apply_env_defaults_level(z) EXCEPT !.i = s.idx, !.pc = "scan"]

\* return code; from cargs_parse_opts_level, *idx left as it is.
LevelFail(s, code) == [s EXCEPT !.lrc = code, !.pc = "ret"]

\* A builtin printed its output: *idx = argc; return CARGS_DONE;
LevelDone(s, what) ==
    [s EXCEPT !.log = Append(@, Event(what, s.cmd, 0, "", NULL, <<>>, "cli")),
              !.idx = argc(s), !.lrc = CARGS_DONE, !.pc = "ret"]

\* Mutant of Invoke: every negative callback result becomes BadFormat.
InvokeAsBadFormat(t, k, val, next) ==
    LET o == Node(t).opts[k]
        r == IF o.cb # "" THEN CallCb(o.cb, val) ELSE CARGS_OK
        called == IF o.cb # ""
                  THEN [t EXCEPT !.log = Append(@, Event("cb", t.cmd, k, o.cb, val, <<>>, "cli"))]
                  ELSE t
    IN  IF r < 0 THEN LevelFail(called, CARGS_ERR_BAD_FORMAT)
        ELSE [called EXCEPT !.counts = Bump(@, o.group), !.pc = next]

\* The callback of option o runs for val; a negative result is returned,
\* otherwise the group counter is bumped and the scan goes on in state t.
Invoke(t, k, val, next) ==
    LET o == Node(t).opts[k]
        r == IF o.cb # "" THEN CallCb(o.cb, val) ELSE CARGS_OK
        called == IF o.cb # ""
                  THEN [t EXCEPT !.log = Append(@, Event("cb", t.cmd, k, o.cb, val, <<>>, "cli"))]
                  ELSE t
    IN  IF r < 0 THEN LevelFail(called, r)
        ELSE [called EXCEPT !.counts = Bump(@, o.group), !.pc = next]

\* Mutant of ParseLong: version and author are allowed at every level.
ParseLongAllowingBelowRoot(s) ==
    LET arg == Arg(s, s.i)
        raw == StrFrom(arg, 2)
        eq == strchr(raw, "=")
        name == IF eq >= 0 THEN SubSeq(raw, 1, eq) ELSE raw
        val0 == IF eq >= 0 THEN StrFrom(raw, eq + 1) ELSE NULL
        env == Env(s)
        allow == s.depth >= 0
        k == cargs_find_long(Node(s).opts, name)
        o == Node(s).opts[k]
    IN  IF eq >= NameBufSize THEN LevelFail(s, CARGS_ERR_BAD_FORMAT)
        ELSE IF env.auto_help /\ name = n_help THEN LevelDone(s, "help")
        ELSE IF allow /\ env.auto_version /\ name = n_version /\ env.version # NULL
             THEN LevelDone(s, "version")
        ELSE IF allow /\ env.auto_author /\ name = n_author /\ env.author # NULL
             THEN LevelDone(s, "author")
        ELSE IF k = 0 THEN LevelFail(s, CARGS_ERR_UNKNOWN)
        ELSE IF o.arg = CARGS_ARG_REQUIRED THEN
            IF val0 # NULL THEN Invoke([s EXCEPT !.i = @ + 1], k, val0, "scan")
            ELSE IF s.i + 1 < argc(s)
                 THEN Invoke([s EXCEPT !.i = @ + 2], k, Arg(s, s.i + 1), "scan")
            ELSE LevelFail(s, CARGS_ERR_MISSING_VAL)
        ELSE IF o.arg = CARGS_ARG_OPTIONAL THEN
            IF val0 = NULL /\ s.i + 1 < argc(s) /\ TakesNext(Arg(s, s.i + 1))
            THEN Invoke([s EXCEPT !.i = @ + 2], k, Arg(s, s.i + 1), "scan")
            ELSE Invoke([s EXCEPT !.i = @ + 1], k, val0, "scan")
        ELSE IF val0 # NULL THEN LevelFail(s, CARGS_ERR_BAD_FORMAT)
        ELSE Invoke([s EXCEPT !.i = @ + 1], k, NULL, "scan")

\* Mutant of ParseLong: a Required-kind option takes the next token only
\* when an Optional-kind one would.
ParseLongLookingAhead(s) ==
    LET arg == Arg(s, s.i)
        raw == StrFrom(arg, 2)
        eq == strchr(raw, "=")
        name == IF eq >= 0 THEN SubSeq(raw, 1, eq) ELSE raw
        val0 == IF eq >= 0 THEN StrFrom(raw, eq + 1) ELSE NULL
        env == Env(s)
        allow == s.depth = 0
        k == cargs_find_long(Node(s).opts, name)
        o == Node(s).opts[k]
    IN  IF eq >= NameBufSize THEN LevelFail(s, CARGS_ERR_BAD_FORMAT)
        ELSE IF env.auto_help /\ name = n_help THEN LevelDone(s, "help")
        ELSE IF allow /\ env.auto_version /\ name = n_version /\ env.version # NULL
             THEN LevelDone(s, "version")
        ELSE IF allow /\ env.auto_author /\ name = n_author /\ env.author # NULL
             THEN LevelDone(s, "author")
        ELSE IF k = 0 THEN LevelFail(s, CARGS_ERR_UNKNOWN)
        ELSE IF o.arg = CARGS_ARG_REQUIRED THEN
            IF val0 # NULL THEN Invoke([s EXCEPT !.i = @ + 1], k, val0, "scan")
            ELSE IF s.i + 1 < argc(s) /\ TakesNext(Arg(s, s.i + 1))
                 THEN Invoke([s EXCEPT !.i = @ + 2], k, Arg(s, s.i + 1), "scan")
            ELSE LevelFail(s, CARGS_ERR_MISSING_VAL)
        ELSE IF o.arg = CARGS_ARG_OPTIONAL THEN
            IF val0 = NULL /\ s.i + 1 < argc(s) /\ TakesNext(Arg(s, s.i + 1))
            THEN Invoke([s EXCEPT !.i = @ + 2], k, Arg(s, s.i + 1), "scan")
            ELSE Invoke([s EXCEPT !.i = @ + 1], k, val0, "scan")
        ELSE IF val0 # NULL THEN LevelFail(s, CARGS_ERR_BAD_FORMAT)
        ELSE Invoke([s EXCEPT !.i = @ + 1], k, NULL, "scan")

\* Mutant of ParseLong: a value attached to a None-kind option is dropped
\* and the option is taken as given without one.
ParseLongDroppingFlagValue(s) ==
    LET arg == Arg(s, s.i)
        raw == StrFrom(arg, 2)
        eq == strchr(raw, "=")
        name == IF eq >= 0 THEN SubSeq(raw, 1, eq) ELSE raw
        val0 == IF eq >= 0 THEN StrFrom(raw, eq + 1) ELSE NULL
        env == Env(s)
        allow == s.depth = 0
        k == cargs_find_long(Node(s).opts, name)
        o == Node(s).opts[k]
    IN  IF eq >= NameBufSize THEN LevelFail(s, CARGS_ERR_BAD_FORMAT)
        ELSE IF env.auto_help /\ name = n_help THEN LevelDone(s, "help")
        ELSE IF allow /\ env.auto_version /\ name = n_version /\ env.version # NULL
             THEN LevelDone(s, "version")
        ELSE IF allow /\ env.auto_author /\ name = n_author /\ env.author # NULL
             THEN LevelDone(s, "author")
        ELSE IF k = 0 THEN LevelFail(s, CARGS_ERR_UNKNOWN)
        ELSE IF o.arg = CARGS_ARG_REQUIRED THEN
            IF val0 # NULL THEN Invoke([s EXCEPT !.i = @ + 1], k, val0, "scan")
            ELSE IF s.i + 1 < argc(s)
                 THEN Invoke([s EXCEPT !.i = @ + 2], k, Arg(s, s.i + 1), "scan")
            ELSE LevelFail(s, CARGS_ERR_MISSING_VAL)
        ELSE IF o.arg = CARGS_ARG_OPTIONAL THEN
            IF val0 = NULL /\ s.i + 1 < argc(s) /\ TakesNext(Arg(s, s.i + 1))
            THEN Invoke([s EXCEPT !.i = @ + 2], k, Arg(s, s.i + 1), "scan")
            ELSE Invoke([s EXCEPT !.i = @ + 1], k, val0, "scan")
        ELSE Invoke([s EXCEPT !.i = @ + 1], k, NULL, "scan")

\* A long option at argv[i].
ParseLong(s) ==
    LET arg == Arg(s, s.i)
        raw == StrFrom(arg, 2)
        eq == strchr(raw, "=")
        name == IF eq >= 0 THEN SubSeq(raw, 1, eq) ELSE raw
        val0 == IF eq >= 0 THEN StrFrom(raw, eq + 1) ELSE NULL
        env == Env(s)
        allow == s.depth = 0
        k == cargs_find_long(Node(s).opts, name)
        o == Node(s).opts[k]
    IN  IF eq >= NameBufSize THEN LevelFail(s, CARGS_ERR_BAD_FORMAT)
        ELSE IF env.auto_help /\ name = n_help THEN LevelDone(s, "help")
        ELSE IF allow /\ env.auto_version /\ name = n_version /\ env.version # NULL
             THEN LevelDone(s, "version")
        ELSE IF allow /\ env.auto_author /\ name = n_author /\ env.author # NULL
             THEN LevelDone(s, "author")
        ELSE IF k = 0 THEN LevelFail(s, CARGS_ERR_UNKNOWN)
        ELSE IF o.arg = CARGS_ARG_REQUIRED THEN
            IF val0 # NULL THEN Invoke([s EXCEPT !.i = @ + 1], k, val0, "scan")
            ELSE IF s.i + 1 < argc(s)
                 THEN Invoke([s EXCEPT !.i = @ + 2], k, Arg(s, s.i + 1), "scan")
            ELSE LevelFail(s, CARGS_ERR_MISSING_VAL)
        ELSE IF o.arg = CARGS_ARG_OPTIONAL THEN
            IF val0 = NULL /\ s.i + 1 < argc(s) /\ TakesNext(Arg(s, s.i + 1))
            THEN Invoke([s EXCEPT !.i = @ + 2], k, Arg(s, s.i + 1), "scan")
            ELSE Invoke([s EXCEPT !.i = @ + 1], k, val0, "scan")
        ELSE IF val0 # NULL THEN LevelFail(s, CARGS_ERR_BAD_FORMAT)
        ELSE Invoke([s EXCEPT !.i = @ + 1], k, NULL, "scan")

\* Mutant of ScanToken: a token that does not start with "-" is skipped
\* and the scan goes on behind it.
ScanTokenSkippingWords(s) ==
    IF s.i >= argc(s) THEN [s EXCEPT !.pc = "enforce"]
    ELSE LET arg == Arg(s, s.i)
         IN  IF CharAt(arg, 0) # "-" THEN [s EXCEPT !.i = @ + 1]
             ELSE IF arg = DashDash
                  THEN [s EXCEPT !.dashdash = s.i, !.i = @ + 1, !.pc = "enforce"]
             ELSE IF CharAt(arg, 1) = "-" THEN ParseLong(s)
             ELSE [s EXCEPT !.cl = s.i, !.p = 1, !.i = @ + 1, !.pc = "cluster"]

\* Mutant of ScanToken: the token "-" is a word that ends the scan.
ScanTokenDashAsWord(s) ==
    IF s.i >= argc(s) THEN [s EXCEPT !.pc = "enforce"]
    ELSE LET arg == Arg(s, s.i)
         IN  IF CharAt(arg, 0) # "-" \/ arg = <<"-">>
             THEN [s EXCEPT !.pc = "enforce"]
             ELSE IF arg = DashDash
                  THEN [s EXCEPT !.dashdash = s.i, !.i = @ + 1, !.pc = "enforce"]
             ELSE IF CharAt(arg, 1) = "-" THEN ParseLong(s)
             ELSE [s EXCEPT !.cl = s.i, !.p = 1, !.i = @ + 1, !.pc = "cluster"]

\* Mutant of ScanToken: the token behind "--" is stepped over with it.
ScanTokenPastDashDash(s) ==
    IF s.i >= argc(s) THEN [s EXCEPT !.pc = "enforce"]
    ELSE LET arg == Arg(s, s.i)
         IN  IF CharAt(arg, 0) # "-" THEN [s EXCEPT !.pc = "enforce"]
             ELSE IF arg = DashDash
                  THEN [s EXCEPT !.dashdash = s.i, !.i = @ + 2, !.pc = "enforce"]
             ELSE IF CharAt(arg, 1) = "-" THEN ParseLong(s)
             ELSE [s EXCEPT !.cl = s.i, !.p = 1, !.i = @ + 1, !.pc = "cluster"]

\* One turn of while (i < argc): a stop, "--", a long option, or the start
\* of a short cluster.
ScanToken(s) ==
    IF s.i >= argc(s) THEN [s EXCEPT !.pc = "enforce"]
    ELSE LET arg == Arg(s, s.i)
         IN  IF CharAt(arg, 0) # "-" THEN [s EXCEPT !.pc = "enforce"]
             ELSE IF arg = DashDash
                  THEN [s EXCEPT !.dashdash = s.i, !.i = @ + 1, !.pc = "enforce"]
             ELSE IF CharAt(arg, 1) = "-" THEN ParseLong(s)
             ELSE [s EXCEPT !.cl = s.i, !.p = 1, !.i = @ + 1, !.pc = "cluster"]

\* Mutant of AttachedValue: the value starts one character late.
AttachedValueOffByOne(arg, q) == StrFrom(arg, q + 1)

\* The value attached to a short option: val = p, the rest of the token.
AttachedValue(arg, q) == StrFrom(arg, q)

\* Mutant of ScanShort: a Required-kind option without a value gets its
\* callback called with NULL instead of failing.
ScanShortCallingWithNull(s) ==
    LET arg == Arg(s, s.cl)
        c == CharAt(arg, s.p)
        q == s.p + 1
        rest == AttachedValue(arg, q)
        env == Env(s)
        k == cargs_find_short(Node(s).opts, c)
        o == Node(s).opts[k]
        t == [s EXCEPT !.p = q]
        attached == [s EXCEPT !.p = Len(arg)]
    IN  IF c = NUL THEN [s EXCEPT !.pc = "scan"]
        ELSE IF env.auto_help /\ c = "h" THEN LevelDone(t, "help")
        ELSE IF s.depth = 0 /\ env.auto_version /\ c = "v" /\ env.version # NULL
             THEN LevelDone(t, "version")
        ELSE IF k = 0 THEN LevelFail(t, CARGS_ERR_UNKNOWN)
        ELSE IF o.arg = CARGS_ARG_REQUIRED THEN
            IF CharAt(arg, q) # NUL THEN Invoke(attached, k, rest, "cluster")
            ELSE IF s.i < argc(s)
                 THEN Invoke([t EXCEPT !.i = @ + 1], k, Arg(s, s.i), "cluster")
            ELSE Invoke(t, k, NULL, "cluster")
        ELSE IF o.arg = CARGS_ARG_OPTIONAL THEN
            IF CharAt(arg, q) # NUL THEN Invoke(attached, k, rest, "cluster")
            ELSE IF s.i < argc(s) /\ TakesNext(Arg(s, s.i))
                 THEN Invoke([t EXCEPT !.i = @ + 1], k, Arg(s, s.i), "cluster")
            ELSE Invoke(t, k, NULL, "cluster")
        ELSE Invoke(t, k, NULL, "cluster")

\* Mutant of ScanShort: a character that names no option is skipped.
ScanShortSkippingUnknown(s) ==
    LET arg == Arg(s, s.cl)
        c == CharAt(arg, s.p)
        q == s.p + 1
        rest == AttachedValue(arg, q)
        env == Env(s)
        k == cargs_find_short(Node(s).opts, c)
        o == Node(s).opts[k]
        t == [s EXCEPT !.p = q]
        attached == [s EXCEPT !.p = Len(arg)]
    IN  IF c = NUL THEN [s EXCEPT !.pc = "scan"]
        ELSE IF env.auto_help /\ c = "h" THEN LevelDone(t, "help")
        ELSE IF s.depth = 0 /\ env.auto_version /\ c = "v" /\ env.version # NULL
             THEN LevelDone(t, "version")
        ELSE IF k = 0 THEN [t EXCEPT !.pc = "cluster"]
        ELSE IF o.arg = CARGS_ARG_REQUIRED THEN
            IF CharAt(arg, q) # NUL THEN Invoke(attached, k, rest, "cluster")
            ELSE IF s.i < argc(s)
                 THEN Invoke([t EXCEPT !.i = @ + 1], k, Arg(s, s.i), "cluster")
            ELSE LevelFail(t, CARGS_ERR_MISSING_VAL)
        ELSE IF o.arg = CARGS_ARG_OPTIONAL THEN
            IF CharAt(arg, q) # NUL THEN Invoke(attached, k, rest, "cluster")
            ELSE IF s.i < argc(s) /\ TakesNext(Arg(s, s.i))
                 THEN Invoke([t EXCEPT !.i = @ + 1], k, Arg(s, s.i), "cluster")
            ELSE Invoke(t, k, NULL, "cluster")
        ELSE Invoke(t, k, NULL, "cluster")

\* Mutant of ScanShort: a None-kind option ends its token, what follows it
\* in the cluster is dropped.
ScanShortOneFlagPerToken(s) ==
    LET arg == Arg(s, s.cl)
        c == CharAt(arg, s.p)
        q == s.p + 1
        rest == AttachedValue(arg, q)
        env == Env(s)
        k == cargs_find_short(Node(s).opts, c)
        o == Node(s).opts[k]
        t == [s EXCEPT !.p = q]
        attached == [s EXCEPT !.p = Len(arg)]
    IN  IF c = NUL THEN [s EXCEPT !.pc = "scan"]
        ELSE IF env.auto_help /\ c = "h" THEN LevelDone(t, "help")
        ELSE IF s.depth = 0 /\ env.auto_version /\ c = "v" /\ env.version # NULL
             THEN LevelDone(t, "version")
        ELSE IF k = 0 THEN LevelFail(t, CARGS_ERR_UNKNOWN)
        ELSE IF o.arg = CARGS_ARG_REQUIRED THEN
            IF CharAt(arg, q) # NUL THEN Invoke(attached, k, rest, "cluster")
            ELSE IF s.i < argc(s)
                 THEN Invoke([t EXCEPT !.i = @ + 1], k, Arg(s, s.i), "cluster")
            ELSE LevelFail(t, CARGS_ERR_MISSING_VAL)
        ELSE IF o.arg = CARGS_ARG_OPTIONAL THEN
            IF CharAt(arg, q) # NUL THEN Invoke(attached, k, rest, "cluster")
            ELSE IF s.i < argc(s) /\ TakesNext(Arg(s, s.i))
                 THEN Invoke([t EXCEPT !.i = @ + 1], k, Arg(s, s.i), "cluster")
            ELSE Invoke(t, k, NULL, "cluster")
        ELSE Invoke(attached, k, NULL, "cluster")

\* Mutant of ScanShort: the help character is looked for only at the head
\* of a cluster.
ScanShortHelpAtHeadOnly(s) ==
    LET arg == Arg(s, s.cl)
        c == CharAt(arg, s.p)
        q == s.p + 1
        rest == AttachedValue(arg, q)
        env == Env(s)
        k == cargs_find_short(Node(s).opts, c)
        o == Node(s).opts[k]
        t == [s EXCEPT !.p = q]
        attached == [s EXCEPT !.p = Len(arg)]
    IN  IF c = NUL THEN [s EXCEPT !.pc = "scan"]
        ELSE IF env.auto_help /\ c = "h" /\ s.p = 1 THEN LevelDone(t, "help")
        ELSE IF s.depth = 0 /\ env.auto_version /\ c = "v" /\ env.version # NULL
             THEN LevelDone(t, "version")
        ELSE IF k = 0 THEN LevelFail(t, CARGS_ERR_UNKNOWN)
        ELSE IF o.arg = CARGS_ARG_REQUIRED THEN
            IF CharAt(arg, q) # NUL THEN Invoke(attached, k, rest, "cluster")
            ELSE IF s.i < argc(s)
                 THEN Invoke([t EXCEPT !.i = @ + 1], k, Arg(s, s.i), "cluster")
            ELSE LevelFail(t, CARGS_ERR_MISSING_VAL)
        ELSE IF o.arg = CARGS_ARG_OPTIONAL THEN
            IF CharAt(arg, q) # NUL THEN Invoke(attached, k, rest, "cluster")
            ELSE IF s.i < argc(s) /\ TakesNext(Arg(s, s.i))
                 THEN Invoke([t EXCEPT !.i = @ + 1], k, Arg(s, s.i), "cluster")
            ELSE Invoke(t, k, NULL, "cluster")
        ELSE Invoke(t, k, NULL, "cluster")

\* Mutant of ScanShort: the builtins are tried only for a character that no
\* option of the level has.
ScanShortOwnOptionsFirst(s) ==
    LET arg == Arg(s, s.cl)
        c == CharAt(arg, s.p)
        q == s.p + 1
        rest == AttachedValue(arg, q)
        env == Env(s)
        k == cargs_find_short(Node(s).opts, c)
        o == Node(s).opts[k]
        t == [s EXCEPT !.p = q]
        attached == [s EXCEPT !.p = Len(arg)]
    IN  IF c = NUL THEN [s EXCEPT !.pc = "scan"]
        ELSE IF env.auto_help /\ c = "h" /\ k = 0 THEN LevelDone(t, "help")
        ELSE IF s.depth = 0 /\ env.auto_version /\ c = "v" /\ env.version # NULL /\ k = 0
             THEN LevelDone(t, "version")
        ELSE IF k = 0 THEN LevelFail(t, CARGS_ERR_UNKNOWN)
        ELSE IF o.arg = CARGS_ARG_REQUIRED THEN
            IF CharAt(arg, q) # NUL THEN Invoke(attached, k, rest, "cluster")
            ELSE IF s.i < argc(s)
                 THEN Invoke([t EXCEPT !.i = @ + 1], k, Arg(s, s.i), "cluster")
            ELSE LevelFail(t, CARGS_ERR_MISSING_VAL)
        ELSE IF o.arg = CARGS_ARG_OPTIONAL THEN
            IF CharAt(arg, q) # NUL THEN Invoke(attached, k, rest, "cluster")
            ELSE IF s.i < argc(s) /\ TakesNext(Arg(s, s.i))
                 THEN Invoke([t EXCEPT !.i = @ + 1], k, Arg(s, s.i), "cluster")
            ELSE Invoke(t, k, NULL, "cluster")
        ELSE Invoke(t, k, NULL, "cluster")

\* One turn of while (*p) over the short cluster argv[cl].
ScanShort(s) ==
    LET arg == Arg(s, s.cl)
        c == CharAt(arg, s.p)
        q == s.p + 1
        rest == AttachedValue(arg, q)
        env == Env(s)
        k == cargs_find_short(Node(s).opts, c)
        o == Node(s).opts[k]
        t == [s EXCEPT !.p = q]
        attached == [s EXCEPT !.p = Len(arg)]
    IN  IF c = NUL THEN [s EXCEPT !.pc = "scan"]
        ELSE IF env.auto_help /\ c = "h" THEN LevelDone(t, "help")
        ELSE IF s.depth = 0 /\ env.auto_version /\ c = "v" /\ env.version # NULL
             THEN LevelDone(t, "version")
        ELSE IF k = 0 THEN LevelFail(t, CARGS_ERR_UNKNOWN)
        ELSE IF o.arg = CARGS_ARG_REQUIRED THEN
            IF CharAt(arg, q) # NUL THEN Invoke(attached, k, rest, "cluster")
            ELSE IF s.i < argc(s)
                 THEN Invoke([t EXCEPT !.i = @ + 1], k, Arg(s, s.i), "cluster")
            ELSE LevelFail(t, CARGS_ERR_MISSING_VAL)
        ELSE IF o.arg = CARGS_ARG_OPTIONAL THEN
            IF CharAt(arg, q) # NUL THEN Invoke(attached, k, rest, "cluster")
            ELSE IF s.i < argc(s) /\ TakesNext(Arg(s, s.i))
                 THEN Invoke([t EXCEPT !.i = @ + 1], k, Arg(s, s.i), "cluster")
            ELSE Invoke(t, k, NULL, "cluster")
        ELSE Invoke(t, k, NULL, "cluster")

\* Mutant of EnforceGroups: a level that passes leaves the status as it
\* finds it.
EnforceGroupsKeepingStatus(s) ==
    IF \E g \in 1..(MAXG - 1) :
          \/ TestBit(s.xor_mask, g) /\ s.counts[g] > 1
          \/ TestBit(s.req_mask, g) /\ s.counts[g] # 1
    THEN LevelFail(s, CARGS_ERR_GROUP)
    ELSE [s EXCEPT !.idx = s.i, !.pc = "ret"]

\* The group policies, enforced after the scan; then *idx = i.
EnforceGroups(s) ==
    IF \E g \in 1..(MAXG - 1) :
          \/ TestBit(s.xor_mask, g) /\ s.counts[g] > 1
          \/ TestBit(s.req_mask, g) /\ s.counts[g] # 1
    THEN LevelFail(s, CARGS_ERR_GROUP)
    ELSE [s EXCEPT !.idx = s.i, !.lrc = CARGS_OK, !.pc = "ret"]


\* ----------------------------------------------------------- cargs_dispatch
\* The entry: if (!root || !argv || argc <= 0) return CARGS_ERR_BAD_FORMAT;
DispatchEntry(s) ==
    IF argc(s) <= 0 THEN [s EXCEPT !.rc = CARGS_ERR_BAD_FORMAT, !.pc = "done"]
    ELSE [s EXCEPT !.cmd = 1, !.depth = 0, !.idx = 1, !.pc = "level"]

\* Mutant of LevelReturned: CARGS_DONE is returned to the caller as it is.
LevelReturnedPassingDone(s) ==
    IF s.lrc = CARGS_DONE \/ s.lrc < 0 THEN [s EXCEPT !.rc = s.lrc, !.pc = "done"]
    ELSE [s EXCEPT !.pc = "descend"]

\* Mutant of LevelReturned: CARGS_DONE is not told from CARGS_OK.
LevelReturnedIgnoringDone(s) ==
    IF s.lrc < 0 THEN [s EXCEPT !.rc = s.lrc, !.pc = "done"]
    ELSE [s EXCEPT !.pc = "descend"]

\* Mutant of LevelReturned: a GroupViolation of the level is not returned.
LevelReturnedDroppingGroup(s) ==
    IF s.lrc = CARGS_DONE THEN [s EXCEPT !.rc = CARGS_OK, !.pc = "done"]
    ELSE IF s.lrc < 0 /\ s.lrc # CARGS_ERR_GROUP
         THEN [s EXCEPT !.rc = s.lrc, !.pc = "done"]
    ELSE [s EXCEPT !.pc = "descend"]

\* After cargs_parse_opts_level returned rc.
LevelReturned(s) ==
    IF s.lrc = CARGS_DONE THEN [s EXCEPT !.rc = CARGS_OK, !.pc = "done"]
    ELSE IF s.lrc < 0 THEN [s EXCEPT !.rc = s.lrc, !.pc = "done"]
    ELSE [s EXCEPT !.pc = "descend"]

\* Mutant of TryDescend: the subcommand token is consumed but the level's
\* options stay those of the parent (cmd = sub forgotten).
TryDescendKeepingLevel(s) ==
    IF s.idx >= argc(s) THEN [s EXCEPT !.pc = "validate"]
    ELSE IF CharAt(Arg(s, s.idx), 0) = "-" THEN [s EXCEPT !.pc = "validate"]
    ELSE LET sub == cargs_find_sub(Tree(s), Node(s), Arg(s, s.idx))
         IN  IF sub = 0 THEN [s EXCEPT !.pc = "validate"]
             ELSE [s EXCEPT
                     !.path = IF s.depth < PathCap THEN Append(@, Arg(s, s.idx)) ELSE @,
                     !.depth = IF s.depth < PathCap THEN @ + 1 ELSE @,
                     !.idx = @ + 1, !.pc = "level"]

\* Mutant of TryDescend: with the path array full the descent stops.
TryDescendStoppingAtPathCap(s) ==
    IF s.idx >= argc(s) THEN [s EXCEPT !.pc = "validate"]
    ELSE IF CharAt(Arg(s, s.idx), 0) = "-" THEN [s EXCEPT !.pc = "validate"]
    ELSE LET sub == cargs_find_sub(Tree(s), Node(s), Arg(s, s.idx))
         IN  IF sub = 0 \/ s.depth >= PathCap THEN [s EXCEPT !.pc = "validate"]
             ELSE [s EXCEPT
                     !.path = Append(@, Arg(s, s.idx)), !.depth = @ + 1,
                     !.idx = @ + 1, !.cmd = sub, !.pc = "level"]

\* Mutant of TryDescend: the child is entered at the token that names it.
TryDescendWithoutAdvance(s) ==
    IF s.idx >= argc(s) THEN [s EXCEPT !.pc = "validate"]
    ELSE IF CharAt(Arg(s, s.idx), 0) = "-" THEN [s EXCEPT !.pc = "validate"]
    ELSE LET sub == cargs_find_sub(Tree(s), Node(s), Arg(s, s.idx))
         IN  IF sub = 0 THEN [s EXCEPT !.pc = "validate"]
             ELSE [s EXCEPT
                     !.path = IF s.depth < PathCap THEN Append(@, Arg(s, s.idx)) ELSE @,
                     !.depth = IF s.depth < PathCap THEN @ + 1 ELSE @,
                     !.cmd = sub, !.pc = "level"]

\* Try to descend into a subcommand, or stop at this node.
TryDescend(s) ==
    IF s.idx >= argc(s) THEN [s EXCEPT !.pc = "validate"]
    ELSE IF CharAt(Arg(s, s.idx), 0) = "-" THEN [s EXCEPT !.pc = "validate"]
    ELSE LET sub == cargs_find_sub(Tree(s), Node(s), Arg(s, s.idx))
         IN  IF sub = 0 THEN [s EXCEPT !.pc = "validate"]
             ELSE [s EXCEPT
                     !.path = IF s.depth < PathCap THEN Append(@, Arg(s, s.idx)) ELSE @,
                     !.depth = IF s.depth < PathCap THEN @ + 1 ELSE @,
                     !.idx = @ + 1, !.cmd = sub, !.pc = "level"]

\* The leftover tokens argv[i..argc-1].
Leftover(s) == SubSeq(s.argv, s.idx + 1, argc(s))

\* Mutant of ValidateLeaf: the schema of the root is checked, whatever the
\* node the descent stopped at.
ValidateLeafAtRoot(s) ==
    LET pos_rc == cargs_validate_positional(Tree(s)[1], argc(s) - s.idx)
    IN  IF pos_rc < 0 THEN [s EXCEPT !.rc = pos_rc, !.pc = "done"]
        ELSE [s EXCEPT !.pc = "run"]

\* cargs_validate_positional(env, cmd, argc - i, &argv[i])
ValidateLeaf(s) ==
    LET pos_rc == cargs_validate_positional(Node(s), argc(s) - s.idx)
    IN  IF pos_rc < 0 THEN [s EXCEPT !.rc = pos_rc, !.pc = "done"]
        ELSE [s EXCEPT !.pc = "run"]

\* Mutant of RunLeaf: the handler's result is reduced to success.
RunLeafReturningOk(s) ==
    IF Node(s).run # ""
    THEN [s EXCEPT
            !.log = Append(@, Event("run", s.cmd, 0, Node(s).run, NULL, Leftover(s), "cli")),
            !.rc = CARGS_OK, !.pc = "done"]
    ELSE [s EXCEPT
            !.log = Append(@, Event("help", s.cmd, 0, "", NULL, <<>>, "cli")),
            !.rc = CARGS_OK, !.pc = "done"]

\* The handler of the node, or its help when it has none.
RunLeaf(s) ==
    IF Node(s).run # ""
    THEN [s EXCEPT
            !.log = Append(@, Event("run", s.cmd, 0, Node(s).run, NULL, Leftover(s), "cli")),
            !.rc = CallRun(Node(s).run, Leftover(s)), !.pc = "done"]
    ELSE [s EXCEPT
            !.log = Append(@, Event("help", s.cmd, 0, "", NULL, <<>>, "cli")),
            !.rc = CARGS_OK, !.pc = "done"]

\* One step of the call from state s.
Step(s) ==
    CASE s.pc = "entry" -> DispatchEntry(s)
      [] s.pc = "level" -> ParseLevelEnter(s)
      [] s.pc = "scan" -> ScanToken(s)
      [] s.pc = "cluster" -> ScanShort(s)
      [] s.pc = "enforce" -> EnforceGroups(s)
      [] s.pc = "ret" -> LevelReturned(s)
      [] s.pc = "descend" -> TryDescend(s)
      [] s.pc = "validate" -> ValidateLeaf(s)
      [] s.pc = "run" -> RunLeaf(s)
      [] OTHER -> s

\* The state in which the call that is in state s returns.
RECURSIVE RunToEnd(_)
RunToEnd(s) == IF s.pc = "done" THEN s ELSE RunToEnd(Step(s))

\* ------------------------------------------------------ the typed helpers
\* Byte counts reach 2^64 and do not fit a model integer: a count is the
\* sequence of its base-10^4 digits, least significant first, without
\* leading zero digits (so zero is the empty sequence).
Limb == 10 ^ 4

RECURSIVE BigTrim(_)
BigTrim(x) ==
    IF x = <<>> THEN x
    ELSE IF x[Len(x)] = 0 THEN BigTrim(SubSeq(x, 1, Len(x) - 1))
    ELSE x

RECURSIVE BigMulCarry(_, _, _)
BigMulCarry(x, k, carry) ==
    IF x = <<>>
    THEN IF carry = 0 THEN <<>>
         ELSE <<(carry % Limb)>> \o BigMulCarry(x, k, carry \div Limb)
    ELSE LET v == x[1] * k + carry
         IN  <<(v % Limb)>> \o BigMulCarry(Tail(x), k, v \div Limb)

BigMul(x, k) == BigTrim(BigMulCarry(x, k, 0))
BigAdd(x, a) == BigTrim(BigMulCarry(x, 1, a))
BigOfInt(n) == BigAdd(<<>>, n)

RECURSIVE BigPowMul(_, _, _)
BigPowMul(x, k, e) == IF e = 0 THEN x ELSE BigPowMul(BigMul(x, k), k, e - 1)

RECURSIVE BigDivRem(_, _, _)
BigDivRem(x, d, r) ==
    IF x = <<>> THEN <<>>
    ELSE LET top == r * Limb + x[Len(x)]
         IN  BigDivRem(SubSeq(x, 1, Len(x) - 1), d, top % d)
                 \o <<top \div d>>

BigDiv(x, d) == BigTrim(BigDivRem(x, d, 0))

RECURSIVE BigLess(_, _)
BigLess(x, y) ==
    IF Len(x) # Len(y) THEN Len(x) < Len(y)
    ELSE IF x = <<>> THEN FALSE
    ELSE IF x[Len(x)] # y[Len(y)] THEN x[Len(x)] < y[Len(y)]
    ELSE BigLess(SubSeq(x, 1, Len(x) - 1), SubSeq(y, 1, Len(y) - 1))

\* (double)UINT64_MAX: the conversion rounds 2^64 - 1 up to 2^64.
UINT64_MAX_AS_DOUBLE == BigMul(BigPowMul(<<1>>, 1024, 6), 16)

Digits == <<"0", "1", "2", "3", "4", "5", "6", "7", "8", "9">>
IsDigit(c) == \E d \in 1..Len(Digits) : Digits[d] = c
DigitVal(c) == (CHOOSE d \in 1..Len(Digits) : Digits[d] = c) - 1
IsBlank(c) == c \in {" ", "\t"}

toupper(c) ==
    CASE c = "b" -> "B" [] c = "i" -> "I" [] c = "k" -> "K"
      [] c = "m" -> "M" [] c = "g" -> "G" [] c = "t" -> "T"
      [] c = "p" -> "P" [] c = "e" -> "E" [] c = "x" -> "X"
      [] OTHER -> c

\* The character at offset k of str (k = Len(str) is its terminator) and,
\* beyond the terminator, whatever the memory after the string holds.
ByteAt(str, k, beyond) ==
    IF k < Len(str) THEN str[k + 1]
    ELSE IF k = Len(str) THEN NUL
    ELSE beyond

\* A skip that skips nothing.
SkipNoBlanks(str, k) == k

RECURSIVE SkipBlanks(_, _)
SkipBlanks(str, k) ==
    IF k < Len(str) /\ IsBlank(str[k + 1]) THEN SkipBlanks(str, k + 1) ELSE k

RECURSIVE SkipDigits(_, _)
SkipDigits(str, k) ==
    IF k < Len(str) /\ IsDigit(str[k + 1]) THEN SkipDigits(str, k + 1) ELSE k

RECURSIVE DigitsValue(_, _, _)
DigitsValue(str, from, to) ==
    IF to <= from THEN 0
    ELSE DigitsValue(str, from, to - 1) * 10 + DigitVal(str[to])

\* strtod on a decimal literal: blanks, a sign, digits, a point and digits.
\* The value is mant / 10^frac, negated when neg; end is the offset of the
\* first character after the literal, 0 when there is no literal.  (An
\* exponent needs a digit after the e, a hexadecimal literal one after the
\* 0x, and inf and nan start with a letter: the literals here are decimal.)
strtod(str) ==
    LET b0 == SkipBlanks(str, 0)
        neg == ByteAt(str, b0, NUL) = "-"
        d0 == IF ByteAt(str, b0, NUL) \in {"-", "+"} THEN b0 + 1 ELSE b0
        d1 == SkipDigits(str, d0)
        f0 == IF ByteAt(str, d1, NUL) = "." THEN d1 + 1 ELSE d1
        f1 == SkipDigits(str, f0)
        some == d1 > d0 \/ f1 > f0
    IN  IF ~some THEN [end |-> 0, neg |-> FALSE, mant |-> 0, frac |-> 0]
        ELSE [end |-> IF f1 > f0 \/ f0 > d1 THEN f1 ELSE d1,
              neg |-> neg,
              mant |-> DigitsValue(str, d0, d1) * 10 ^ (f1 - f0)
                           + DigitsValue(str, f0, f1),
              frac |-> f1 - f0]

k10 == 1000
k2 == 1024
UnitLetters == <<"K", "M", "G", "T", "P", "E">>
UnitPower(a) == CHOOSE e \in 1..Len(UnitLetters) : UnitLetters[e] = a

SizeFailed == [rc |-> -1, out |-> <<>>, beyond |-> FALSE]

\* cargs_read_size(s, prefer_iec, out): rc is what it returns and out what
\* it stores; beyond tells that it read a byte after the terminator, whose
\* value is mem.ch.  A product that rounds to 2^64 passes the range test
\* and is then converted to uint64_t, which is undefined: mem.out is the
\* value the build stores.
cargs_read_size(str, prefer_iec, mem) ==
    IF str = NULL \/ str = <<>> THEN SizeFailed
    ELSE
    LET v == strtod(str)
        e0 == SkipBlanks(str, v.end)
        unit == ByteAt(str, e0, NUL) # NUL
        a == toupper(ByteAt(str, e0, mem.ch))
        b == toupper(ByteAt(str, e0 + 1, mem.ch))
        c == toupper(ByteAt(str, e0 + 2, mem.ch))
        past == unit /\ e0 + 2 > Len(str)
        known == a = "B" \/ \E e \in 1..Len(UnitLetters) : UnitLetters[e] = a
        pw == IF a = "B" THEN 0 ELSE UnitPower(a)
        radix == IF b = "I" THEN k2 ELSE IF prefer_iec THEN k2 ELSE k10
        e1 == IF ~unit THEN e0
              ELSE IF a = "B" THEN e0 + 1
              ELSE IF b = "I" /\ c \in {"B", NUL}
                   THEN e0 + (IF c = "B" THEN 3 ELSE 2)
                   ELSE e0 + (IF b = "B" THEN 2 ELSE 1)
        e2 == SkipBlanks(str, e1)
        scaled == BigPowMul(BigOfInt(v.mant), radix, IF unit THEN pw ELSE 0)
        den == 10 ^ v.frac
        rounded == BigDiv(BigAdd(BigMul(scaled, 2), den), 2 * den)
    IN  IF v.end = 0 THEN SizeFailed
        ELSE IF unit /\ ~known THEN [SizeFailed EXCEPT !.beyond = past]
        ELSE IF ByteAt(str, e2, NUL) # NUL
            THEN [SizeFailed EXCEPT !.beyond = past]
        ELSE IF v.neg /\ scaled # <<>>
            THEN [SizeFailed EXCEPT !.beyond = past]
        ELSE IF BigLess(BigMul(UINT64_MAX_AS_DOUBLE, den), scaled)
            THEN [SizeFailed EXCEPT !.beyond = past]
        ELSE IF ~BigLess(rounded, UINT64_MAX_AS_DOUBLE)
            THEN [rc |-> CARGS_OK, out |-> mem.out, beyond |-> past]
        ELSE [rc |-> CARGS_OK, out |-> rounded, beyond |-> past]

cargs_read_size_si(str, mem) == cargs_read_size(str, FALSE, mem)
cargs_read_size_iec(str, mem) == cargs_read_size(str, TRUE, mem)

\* The decimal digits of n.
RECURSIVE DecChars(_)
DecChars(n) ==
    IF n < 10 THEN <<Digits[n + 1]>>
    ELSE DecChars(n \div 10) \o <<Digits[(n % 10) + 1]>>

RECURSIVE BigSumCarry(_, _, _)
BigSumCarry(x, y, carry) ==
    IF x = <<>> THEN BigMulCarry(y, 1, carry)
    ELSE IF y = <<>> THEN BigMulCarry(x, 1, carry)
    ELSE LET v == x[1] + y[1] + carry
         IN  <<(v % Limb)>> \o BigSumCarry(Tail(x), Tail(y), v \div Limb)

BigSum(x, y) == BigTrim(BigSumCarry(x, y, 0))

RECURSIVE BigRemFrom(_, _, _)
BigRemFrom(x, d, r) ==
    IF x = <<>> THEN r
    ELSE BigRemFrom(SubSeq(x, 1, Len(x) - 1), d, (r * Limb + x[Len(x)]) % d)

BigRem(x, d) == BigRemFrom(x, d, 0)

RECURSIVE BigToInt(_)
BigToInt(x) == IF x = <<>> THEN 0 ELSE x[1] + Limb * BigToInt(Tail(x))

\* x / k^e rounded down, and whether k^e divides x.
RECURSIVE BigPowDiv(_, _, _)
BigPowDiv(x, k, e) == IF e = 0 THEN x ELSE BigPowDiv(BigDiv(x, k), k, e - 1)

BigPowDivides(x, k, e) == BigPowMul(BigPowDiv(x, k, e), k, e) = x

\* (double)bytes: a double holds 53 significant bits, so a count of 2^53
\* (DBL_MANT_LIMIT) or more is rounded to a multiple of 2^s, halves to the
\* even multiple.
DBL_MANT_LIMIT == BigMul(BigPowMul(<<1>>, 1024, 5), 8)

RECURSIVE DoubleShift(_, _)
DoubleShift(x, s) ==
    IF BigLess(x, BigMul(DBL_MANT_LIMIT, 2 ^ s)) THEN s
    ELSE DoubleShift(x, s + 1)

uint64_to_double(x) ==
    LET u == 2 ^ DoubleShift(x, 0)
        q0 == BigDiv(x, u)
        r0 == BigRem(x, u)
        up == 2 * r0 > u \/ (2 * r0 = u /\ BigRem(q0, 2) = 1)
    IN  BigMul(IF up THEN BigAdd(q0, 1) ELSE q0, u)

U_SI == << <<"B">>, <<"K", "B">>, <<"M", "B">>, <<"G", "B">>,
           <<"T", "B">>, <<"P", "B">>, <<"E", "B">> >>
U_IEC == << <<"B">>, <<"K", "i", "B">>, <<"M", "i", "B">>,
            <<"G", "i", "B">>, <<"T", "i", "B">>, <<"P", "i", "B">>,
            <<"E", "i", "B">> >>

\* The loop of cargs_fmt_bytes: how often v is divided by k, from n on.
RECURSIVE FmtDivisions(_, _, _)
FmtDivisions(v, k, n) ==
    IF n < 6 /\ ~BigLess(v, BigPowMul(<<1>>, k, n + 1))
    THEN FmtDivisions(v, k, n + 1)
    ELSE n

RECURSIVE ZeroPad(_, _)
ZeroPad(q, n) == IF Len(q) >= n THEN q ELSE ZeroPad(<<"0">> \o q, n)

\* Twice num * 10^d / k^e rounded down, and whether that division is exact.
FmtTwice(num, k, e, d) == BigPowDiv(BigPowMul(BigMul(num, 2), 10, d), k, e)
FmtExact(num, k, e, d) == BigPowDivides(BigPowMul(BigMul(num, 2), 10, d), k, e)

\* The quotient num / k^e lies exactly half way between two neighbours of
\* d decimals.
FmtHalfWay(num, k, e, d) ==
    BigRem(FmtTwice(num, k, e, d), 2) = 1 /\ FmtExact(num, k, e, d)

\* printf("%.*f", d, num / k^e): the quotient rounded to d decimals, an
\* exact half to the even neighbour.
FmtFixed(num, k, e, d) ==
    LET twice == FmtTwice(num, k, e, d)
        fl == BigToInt(BigDiv(twice, 2))
        up == /\ BigRem(twice, 2) = 1
              /\ ~FmtExact(num, k, e, d) \/ fl % 2 = 1
        digs == ZeroPad(DecChars(IF up THEN fl + 1 ELSE fl), d + 1)
    IN  IF d = 0 THEN digs
        ELSE SubSeq(digs, 1, Len(digs) - d) \o <<".">>
                 \o SubSeq(digs, Len(digs) - d + 1, Len(digs))

\* The decimals cargs_fmt_bytes prints for v after n divisions by k.
FmtDecimals(v, k, n, decimals) ==
    IF \/ n = 0
       \/ ~BigLess(v, BigMul(BigPowMul(<<1>>, k, n), 10))
       \/ decimals = 0
    THEN 0
    ELSE IF decimals < 0 THEN 2 ELSE IF decimals > 6 THEN 6 ELSE decimals

\* cargs_fmt_bytes(bytes, buf, bufsz, iec, decimals): what buf holds when
\* it returns, NULL for a buffer that is left as it was.
cargs_fmt_bytes(bytes, bufsz, iec, decimals) ==
    IF bufsz = 0 THEN NULL
    ELSE
    LET U == IF iec THEN U_IEC ELSE U_SI
        k == IF iec THEN k2 ELSE k10
        v == uint64_to_double(bytes)
        n == FmtDivisions(v, k, 0)
        text == FmtFixed(v, k, n, FmtDecimals(v, k, n, decimals)) \o U[n + 1]
    IN  SubSeq(text, 1, IF Len(text) >= bufsz THEN bufsz - 1 ELSE Len(text))

\* x - y for x >= y.
RECURSIVE BigSubBorrow(_, _, _)
BigSubBorrow(x, y, borrow) ==
    IF x = <<>> THEN <<>>
    ELSE LET sub == (IF y = <<>> THEN 0 ELSE y[1]) + borrow
             rest == IF y = <<>> THEN y ELSE Tail(y)
         IN  IF x[1] >= sub
             THEN <<x[1] - sub>> \o BigSubBorrow(Tail(x), rest, 0)
             ELSE <<x[1] + Limb - sub>> \o BigSubBorrow(Tail(x), rest, 1)

BigSub(x, y) == BigTrim(BigSubBorrow(x, y, 0))

\* 2^64 - 1.
ULLONG_MAX == BigSub(UINT64_MAX_AS_DOUBLE, <<1>>)

HexLower == <<"0", "1", "2", "3", "4", "5", "6", "7", "8", "9",
              "a", "b", "c", "d", "e", "f">>
HexUpper == <<"0", "1", "2", "3", "4", "5", "6", "7", "8", "9",
              "A", "B", "C", "D", "E", "F">>

\* The value of c as a digit, 36 when it is none.
DigitOf(c) ==
    IF \E d \in 1..16 : HexLower[d] = c
    THEN (CHOOSE d \in 1..16 : HexLower[d] = c) - 1
    ELSE IF \E d \in 1..16 : HexUpper[d] = c
    THEN (CHOOSE d \in 1..16 : HexUpper[d] = c) - 1
    ELSE 36

RECURSIVE SkipBaseDigits(_, _, _)
SkipBaseDigits(str, k, base) ==
    IF k < Len(str) /\ DigitOf(str[k + 1]) < base
    THEN SkipBaseDigits(str, k + 1, base)
    ELSE k

\* The digits of str from offset k up to offset to read in the base, on
\* top of acc; a value above ULLONG_MAX is cut off at 2^64.
RECURSIVE BaseValue(_, _, _, _, _)
BaseValue(str, k, to, base, acc) ==
    IF k >= to THEN acc
    ELSE LET more == BigAdd(BigMul(acc, base), DigitOf(str[k + 1]))
         IN  IF BigLess(ULLONG_MAX, more) THEN BigAdd(ULLONG_MAX, 1)
             ELSE BaseValue(str, k + 1, to, base, more)

\* strtoull(str, &end, 0): blanks, a sign, a 0x or 0 prefix that selects
\* base 16 or 8, and the digits of that base.  end is the offset after the
\* last digit, 0 when there is none; a magnitude above ULLONG_MAX sets
\* errno to ERANGE, and a minus sign negates the magnitude modulo 2^64.
strtoull(str) ==
    LET b0 == SkipBlanks(str, 0)
        neg == ByteAt(str, b0, NUL) = "-"
        d0 == IF ByteAt(str, b0, NUL) \in {"-", "+"} THEN b0 + 1 ELSE b0
        hex == /\ ByteAt(str, d0, NUL) = "0"
               /\ ByteAt(str, d0 + 1, NUL) \in {"x", "X"}
               /\ DigitOf(ByteAt(str, d0 + 2, NUL)) < 16
        base == IF hex THEN 16
                ELSE IF ByteAt(str, d0, NUL) = "0" THEN 8 ELSE 10
        d1 == IF hex THEN d0 + 2 ELSE d0
        d2 == SkipBaseDigits(str, d1, base)
        mag == BaseValue(str, d1, d2, base, <<>>)
        erange == BigLess(ULLONG_MAX, mag)
    IN  [end |-> IF d2 > d1 THEN d2 ELSE 0,
         errno |-> d2 > d1 /\ erange,
         val |-> IF erange THEN ULLONG_MAX
                 ELSE IF neg /\ mag # <<>>
                      THEN BigSub(BigAdd(ULLONG_MAX, 1), mag)
                      ELSE mag]

\* cargs_read_uint64(s, out): rc is what it returns, out what it stores.
cargs_read_uint64(str) ==
    IF str = NULL \/ str = <<>> THEN SizeFailed
    ELSE LET v == strtoull(str)
         IN  IF v.errno \/ v.end = 0 \/ ByteAt(str, v.end, NUL) # NUL
             THEN SizeFailed
             ELSE [rc |-> CARGS_OK, out |-> v.val, beyond |-> FALSE]

\* No helper is called during a dispatch.
NoConv ==
    [phase |-> "none", fn |-> "none",
     arg |-> [lit |-> [int |-> 0, frac |-> -1],
              gap |-> <<>>, unit |-> <<>>, tail |-> <<>>],
     str |-> <<>>, prefer_iec |-> FALSE,
     mem |-> [ch |-> "x", out |-> <<>>], res |-> SizeFailed,
     bytes |-> <<>>, bufsz |-> 0, decimals |-> 0, buf |-> NULL]

\* --------------------------------------------------------- the behaviours
Prog == <<"t">>

Init ==
    \E k \in 1..Len(ScenarioSeq) :
        \E a \in {<<>>} \cup { <<Prog>> \o q :
                        q \in SeqsUpTo(ScenarioSeq[k].tokens,
                                       MaxArgs - ScenarioSeq[k].cut) } :
            Is(Start(k, a)) /\ conv = NoConv

Enter == pc = "entry" /\ Set(DispatchEntry(Cur))
LevelEnter == pc = "level" /\ Set(ParseLevelEnter(Cur))
Scan == pc = "scan" /\ Set(ScanToken(Cur))
Cluster == pc = "cluster" /\ Set(ScanShort(Cur))
Enforce == pc = "enforce" /\ Set(EnforceGroups(Cur))
Return == pc = "ret" /\ Set(LevelReturned(Cur))
Descend == pc = "descend" /\ Set(TryDescend(Cur))
Validate == pc = "validate" /\ Set(ValidateLeaf(Cur))
Run == pc = "run" /\ Set(RunLeaf(Cur))

Next ==
    \/ Enter
    \/ LevelEnter
    \/ Scan
    \/ Cluster
    \/ Enforce
    \/ Return
    \/ Descend
    \/ Validate
    \/ Run

Spec == Init /\ [][Next]_vars

\* ----------------------------------------------- the calls of the helpers
\* A size text: a decimal literal (frac is its one fraction digit, -1 when
\* it has none), a gap, a unit and what follows the unit.
MaxSizeInt == 19
MaxSizeFracInt == 1

SizeLiterals ==
    [int : (0..MaxSizeInt) \cup {128}, frac : {-1}]
        \cup [int : 0..MaxSizeFracInt, frac : 0..9]

UnitForms(a) == { <<a>>, <<a, "B">>, <<a, "i">>, <<a, "i", "B">> }

SizeUnits ==
    {<<>>, <<"B">>, <<"b">>}
        \cup UNION { UnitForms(UnitLetters[e]) : e \in 1..Len(UnitLetters) }
        \cup {<<"k">>, <<"k", "b">>, <<"K", "I", "B">>, <<"m", "i", "b">>}

SizeGaps == {<<>>, <<" ", "\t">>}
SizeTails == {<<>>, <<" ">>, <<"x">>}

\* The power a unit stands for, and whether it asks for radix 1024.
PowerOf(unit) == IF unit = <<>> \/ toupper(unit[1]) = "B" THEN 0
                 ELSE UnitPower(toupper(unit[1]))
HasI(unit) == Len(unit) > 1 /\ toupper(unit[2]) = "I"

\* The product is computed in double precision.  The texts drawn are those
\* whose product a double holds exactly or, with a fraction digit, whose
\* product stays below 2^53 so that the rounding is that of the exact
\* product: the literals without a fraction with every unit, the others
\* with the units up to T.
SizeInputs ==
    { t \in [lit : SizeLiterals, gap : SizeGaps,
             unit : SizeUnits, tail : SizeTails] :
          t.lit.frac >= 0 => PowerOf(t.unit) <= 4 }

SizeText(t) ==
    DecChars(t.lit.int)
        \o (IF t.lit.frac < 0 THEN <<>> ELSE <<".", Digits[t.lit.frac + 1]>>)
        \o t.gap \o t.unit \o t.tail

\* 2^64 - 1.
AllOnes64 == <<1615, 955, 737, 6744, 1844>>

\* What the memory after the text holds, and what the build stores when
\* the conversion to uint64_t is undefined.
SizeMems == { [ch |-> "B", out |-> <<>>], [ch |-> "x", out |-> AllOnes64] }

SizeCalls ==
    { [NoConv EXCEPT !.phase = "call", !.fn = "cargs_read_size", !.arg = t,
                     !.str = SizeText(t), !.prefer_iec = q, !.mem = m] :
          t \in SizeInputs, q \in BOOLEAN, m \in SizeMems }

\* The byte counts formatted: the multiples m * k^e of the powers of both
\* radixes and their neighbours, and the largest count.
MaxFmtMultiple == 12
FmtMultiples ==
    (0..MaxFmtMultiple)
        \cup {99, 100, 999, 1000, 1001, 1023, 1024, 1025, 1500, 2560}

RECURSIVE BigPred(_)
BigPred(x) ==
    IF x[1] > 0 THEN BigTrim([x EXCEPT ![1] = x[1] - 1])
    ELSE <<Limb - 1>> \o BigPred(Tail(x))

FmtCounts ==
    LET around(x) == {BigAdd(x, 0), BigAdd(x, 1)}
                         \cup (IF x = <<>> THEN {} ELSE {BigPred(x)})
        all == UNION { around(BigPowMul(BigOfInt(m), k, e)) :
                           m \in FmtMultiples, k \in {k10, k2}, e \in 0..6 }
    IN  { x \in all : ~BigLess(AllOnes64, x) } \cup {AllOnes64}

FmtBufSizes == {0, 4, 32}
FmtDecimalsAsked == {-1, 0, 2, 7}

\* With radix 1000 a quotient half way between two neighbours of one or
\* more decimals has no double of its own, and the double nearest to it
\* decides the digit printed: those calls are not drawn.
FmtInexactHalf(x, iec, decimals) ==
    LET v == uint64_to_double(x)
        n == FmtDivisions(v, k10, 0)
        d == FmtDecimals(v, k10, n, decimals)
    IN  ~iec /\ d > 0 /\ FmtHalfWay(v, k10, n, d)

FmtArgs ==
    { t \in [bytes : FmtCounts, bufsz : FmtBufSizes, iec : BOOLEAN,
             decimals : FmtDecimalsAsked] :
          ~FmtInexactHalf(t.bytes, t.iec, t.decimals) }

FmtCalls ==
    { [NoConv EXCEPT !.phase = "call", !.fn = "cargs_fmt_bytes",
                     !.bytes = t.bytes, !.bufsz = t.bufsz,
                     !.prefer_iec = t.iec, !.decimals = t.decimals] :
          t \in FmtArgs }

\* The texts read as unsigned numbers: blanks, a sign, a body and a tail.
\* The bodies are the small decimal numbers, the ends of the range and
\* the prefixed forms.
MaxUintSmall == 12
UintBodies ==
    { DecChars(n) : n \in 0..MaxUintSmall }
        \cup { <<"1", "8", "4", "4", "6", "7", "4", "4", "0", "7",
                 "3", "7", "0", "9", "5", "5", "1", "6", "1", d>> :
                   d \in {"4", "5", "6"} }
        \cup { <<>>, <<"0", "0">>, <<"0", "1", "0">>, <<"0", "8">>,
               <<"0", "x">>, <<"0", "x", "1", "0">>, <<"0", "X", "1", "f">>,
               <<"0", "x", "1", "G">> }

UintInputs ==
    [lead : {<<>>, <<" ">>}, sign : {<<>>, <<"-">>, <<"+">>},
     body : UintBodies, tail : {<<>>, <<" ">>, <<"x">>}]

UintText(t) == t.lead \o t.sign \o t.body \o t.tail

UintCalls ==
    { [NoConv EXCEPT !.phase = "call", !.fn = "cargs_read_uint64",
                     !.arg = t, !.str = UintText(t)] : t \in UintInputs }
        \cup { [NoConv EXCEPT !.phase = "call", !.fn = "cargs_read_uint64",
                              !.str = NULL] }

ConvInit ==
    /\ Is(Start(1, <<>>))
    /\ conv \in SizeCalls \cup FmtCalls \cup UintCalls

ReadSize ==
    /\ conv.phase = "call" /\ conv.fn = "cargs_read_size"
    /\ conv' = [conv EXCEPT
           !.phase = "returned",
           !.res = IF conv.prefer_iec
                   THEN cargs_read_size_iec(conv.str, conv.mem)
                   ELSE cargs_read_size_si(conv.str, conv.mem)]
    /\ UNCHANGED <<scn, argv, pc, cmd, depth, path, idx, rc, lrc, counts,
                   xor_mask, req_mask, i, cl, p, log, dashdash>>

FmtBytes ==
    /\ conv.phase = "call" /\ conv.fn = "cargs_fmt_bytes"
    /\ conv' = [conv EXCEPT
           !.phase = "returned",
           !.buf = cargs_fmt_bytes(conv.bytes, conv.bufsz, conv.prefer_iec,
                                   conv.decimals)]
    /\ UNCHANGED <<scn, argv, pc, cmd, depth, path, idx, rc, lrc, counts,
                   xor_mask, req_mask, i, cl, p, log, dashdash>>

ReadUint64 ==
    /\ conv.phase = "call" /\ conv.fn = "cargs_read_uint64"
    /\ conv' = [conv EXCEPT !.phase = "returned",
                            !.res = cargs_read_uint64(conv.str)]
    /\ UNCHANGED <<scn, argv, pc, cmd, depth, path, idx, rc, lrc, counts,
                   xor_mask, req_mask, i, cl, p, log, dashdash>>

ConvNext ==
    \/ ReadSize
    \/ FmtBytes
    \/ ReadUint64

ConvSpec == ConvInit /\ [][ConvNext]_vars

\* ------------------------------------------------- one call after another
\* The families whose calls are followed by a second call.
CallsFamilies ==
    { k \in 1..Len(ScenarioSeq) : ScenarioSeq[k].tree = SameGroupTree }

\* The first call, with a short argv.
CallsInit ==
    \E k \in CallsFamilies :
        \E a \in {<<>>} \cup { <<Prog>> \o q :
                        q \in SeqsUpTo(ScenarioSeq[k].tokens, MaxFirstArgs) } :
            Is(Start(k, a)) /\ conv = NoConv

\* cargs_dispatch is called again after it has returned, with the same tree,
\* cargs_env and process environment and any argv.  cmd, depth, i and the
\* path get their initial values; the locals of the level parser, which have
\* no initializer, hold what the call before left in them.  The record of
\* what is called starts anew.
Redispatch ==
    /\ pc = "done" /\ conv.phase = "none"
    /\ \E a \in {<<>>} \cup { <<Prog>> \o q :
                     q \in SeqsUpTo(ScenarioSeq[scn].tokens,
                                    MaxArgs - ScenarioSeq[scn].cut) } :
           argv' = a
    /\ pc' = "entry" /\ cmd' = 1 /\ depth' = 0 /\ path' = <<>> /\ idx' = 0
    /\ log' = <<>> /\ dashdash' = 0
    /\ conv' = [conv EXCEPT !.phase = "second"]
    /\ UNCHANGED <<scn, rc, lrc, counts, xor_mask, req_mask, i, cl, p>>

CallsNext ==
    \/ Next
    \/ Redispatch

CallsSpec == CallsInit /\ [][CallsNext]_vars

\* ------------------------------------------------------- a deep descent
\* argv begins with up to MaxChain subcommand names, and up to two tokens
\* follow them.
DeepInit ==
    \E k \in { m \in 1..Len(ScenarioSeq) : ScenarioSeq[m].tree = ChainTree } :
        \E d \in 0..MaxChain :
            \E q \in SeqsUpTo(ScenarioSeq[k].tokens \ {n_add}, 2) :
                Is(Start(k, <<Prog>> \o [j \in 1..d |-> n_add] \o q))
                    /\ conv = NoConv

DeepSpec == DeepInit /\ [][Next]_vars

\* ------------------------------------------------- the call runs to its end
\* The families whose calls are followed to their end.
FairFamilies ==
    { k \in 1..Len(ScenarioSeq) :
        ScenarioSeq[k].tree \in {OrderTree, ValueTree} }

FairInit ==
    \E k \in FairFamilies :
        \E a \in {<<>>} \cup { <<Prog>> \o q :
                        q \in SeqsUpTo(ScenarioSeq[k].tokens,
                                       MaxArgs - ScenarioSeq[k].cut) } :
            Is(Start(k, a)) /\ conv = NoConv

\* The next statement of the call is executed: cargs_dispatch is sequential
\* code, and the callbacks and the handler return.
Advance == pc # "done" /\ \E t \in {Step(Cur)} : Set(t)

FairSpec == FairInit /\ [][Next]_vars /\ WF_vars(Advance)

\* ------------------------------------------------------------ the claims
LastEvent == log[Len(log)]

\* The tokens after the "--" that the level parser consumed.
AfterDashDash == SubSeq(argv, dashdash + 2, Len(argv))

\* C1: once the level parser has consumed "--", no option is scanned and no
\* subcommand is entered any more, and a handler that runs gets exactly the
\* tokens after the "--", in order.
C1_DashDashEndsOptionsAndDescent ==
    dashdash > 0 =>
        /\ pc \notin {"level", "scan", "cluster"}
        /\ \A k \in 1..Len(log) :
               log[k].ev = "run" => log[k].args = AfterDashDash


\* The options of the current node, and its groups under a policy.
CurOpts == ScenarioSeq[scn].tree[cmd].opts

GroupsOf(policy) ==
    { CurOpts[k].group : k \in { j \in 1..Len(CurOpts) :
          /\ CurOpts[j].group \in 1..(MAXG - 1)
          /\ CurOpts[j].group_policy = policy } }

\* The callbacks made at the current level for options of group g from
\* source src ("env" for the overlay, "cli" for the command line).
MatchesFrom(g, src) ==
    Cardinality({ k \in 1..Len(log) :
        /\ log[k].ev = "cb" /\ log[k].node = cmd /\ log[k].src = src
        /\ CurOpts[log[k].opt].group = g })

Matches(g) == MatchesFrom(g, "env") + MatchesFrom(g, "cli")

\* The level parser has returned from its group enforcement (the callbacks of
\* the model never return CARGS_ERR_GROUP, and a builtin returns CARGS_DONE).
Enforced == pc = "ret" /\ lrc \in {CARGS_OK, CARGS_ERR_GROUP}

\* C4: when the members of a MutuallyExclusive group were matched more than
\* once at a level, the level parse returns GroupViolation (and no handler
\* has run); a level with only MutuallyExclusive groups, each matched at
\* most once, does not fail at enforcement.
C4_XorGroupViolation ==
    Enforced =>
        /\ (\E g \in GroupsOf(CARGS_GRP_XOR) : Matches(g) > 1)
               => /\ lrc = CARGS_ERR_GROUP
                  /\ \A k \in 1..Len(log) : log[k].ev # "run"
        /\ ( /\ GroupsOf(CARGS_GRP_REQ_ONE) = {}
             /\ \A g \in GroupsOf(CARGS_GRP_XOR) : Matches(g) <= 1 )
               => lrc = CARGS_OK

\* C5: when the members of an ExactlyOne group were matched zero times or
\* more than once at a level, the level parse returns GroupViolation; a
\* level with only ExactlyOne groups, each matched exactly once, does not
\* fail at enforcement.
C5_ReqOneGroupViolation ==
    Enforced =>
        /\ (\E g \in GroupsOf(CARGS_GRP_REQ_ONE) : Matches(g) # 1)
               => lrc = CARGS_ERR_GROUP
        /\ ( /\ GroupsOf(CARGS_GRP_XOR) = {}
             /\ \A g \in GroupsOf(CARGS_GRP_REQ_ONE) : Matches(g) = 1 )
               => lrc = CARGS_OK

\* C6: at enforcement a group's counter is the number of overlay callbacks
\* plus the number of command-line matches of its members; so a
\* MutuallyExclusive group with one overlay match and one explicit match
\* yields GroupViolation, and an ExactlyOne group whose only match is an
\* overlay match is satisfied.
C6_CountersIncludeOverlay ==
    /\ pc = "enforce" => \A g \in 1..(MAXG - 1) : counts[g] = Matches(g)
    /\ Enforced =>
        /\ \A g \in GroupsOf(CARGS_GRP_XOR) :
               MatchesFrom(g, "env") = 1 /\ MatchesFrom(g, "cli") = 1
                   => lrc = CARGS_ERR_GROUP
        /\ ( /\ GroupsOf(CARGS_GRP_XOR) = {}
             /\ \A g \in GroupsOf(CARGS_GRP_REQ_ONE) :
                    MatchesFrom(g, "env") = 1 /\ MatchesFrom(g, "cli") = 0 )
               => lrc = CARGS_OK


\* The sum of field f over the segments of a schema.
RECURSIVE SegmentSum(_, _)
SegmentSum(schema, f) ==
    IF schema = <<>> THEN 0
    ELSE schema[1][f] + SegmentSum(Tail(schema), f)

\* The verdict the Positional Validator owes a schema and n leftover tokens.
PositionalVerdict(schema, n) ==
    IF schema = <<>> THEN CARGS_OK
    ELSE IF n < SegmentSum(schema, "min") THEN CARGS_ERR_POSITIONAL
    ELSE IF /\ \A k \in 1..Len(schema) : schema[k].max # CARGS_POS_INF
            /\ n > SegmentSum(schema, "max")
         THEN CARGS_ERR_TOO_MANY
    ELSE CARGS_OK

CurSchema == ScenarioSeq[scn].tree[cmd].pos

\* C7: the validation step fails with Positional when the leftover count is
\* below the sum of the minima, with TooMany when no segment is unbounded
\* and the count exceeds the sum of the maxima, and lets the handler run
\* otherwise; a node without a schema accepts every count, and the schema
\* {1,unbounded},{1,1} accepts exactly the counts from 2 on.
C7_PositionalEnvelope ==
    [][ pc = "validate" =>
          LET n == Len(argv) - idx
              verdict == PositionalVerdict(CurSchema, n)
          IN  /\ IF verdict = CARGS_OK THEN pc' = "run"
                 ELSE pc' = "done" /\ rc' = verdict /\ log' = log
              /\ CurSchema = <<>> => pc' = "run"
              /\ CurSchema = <<Pos(1, CARGS_POS_INF), Pos(1, 1)>>
                     => (pc' = "run" <=> n >= 2) ]_vars

\* C7 witness: the schema {1,unbounded},{1,1} accepted three leftover tokens.
C7_Witness ==
    /\ pc = "run"
    /\ CurSchema = <<Pos(1, CARGS_POS_INF), Pos(1, 1)>>
    /\ Len(argv) - idx = 3

\* What the caller observes of a finished call: the status, the node that
\* was reached, and the callbacks, handler and outputs with their arguments.
Outcome(e) == [rc |-> e.rc, cmd |-> e.cmd, log |-> e.log]

\* The current state with argv[k] replaced by the token tok.
WithArg(k, tok) == [Cur EXCEPT !.argv[k + 1] = tok]

\* C8: when descent is tried on a token that is an alias of a child, the
\* call ends exactly as it does with the child's name in that place: same
\* node, same callbacks and values, same handler and leftovers, same status.
C8_AliasRoutesAsName ==
    (pc = "descend" /\ idx < Len(argv)) =>
        \A c \in 1..Len(ScenarioSeq[scn].tree[cmd].subs) :
            LET child == ScenarioSeq[scn].tree[ScenarioSeq[scn].tree[cmd].subs[c]]
            IN  (\E a \in 1..Len(child.aliases) : child.aliases[a] = argv[idx + 1])
                    => Outcome(RunToEnd(Cur))
                         = Outcome(RunToEnd(WithArg(idx, child.name)))

\* C8 witness: the alias "rm" was given and the handler of "remove" ran.
C8_Witness ==
    /\ pc = "done" /\ cmd = 4 /\ Len(path) = 2 /\ path[2] = n_rm
    /\ Len(log) > 0 /\ LastEvent.ev = "run" /\ LastEvent.name = "run_remote_rm"

\* A builtin was intercepted by the level parser.
Intercepted == lrc = CARGS_DONE

HandlerRan == \E k \in 1..Len(log) : log[k].ev = "run"

\* The help of a node without handler was printed.
HelpShown == ~Intercepted /\ Len(log) > 0 /\ LastEvent.ev = "help"

C10_InterceptionEndsDispatch ==
    Intercepted =>
        /\ pc \in {"ret", "done"}
        /\ LastEvent.ev \in {"help", "version", "author"}
        /\ LastEvent.node = cmd
        /\ idx = Len(argv)
        /\ pc = "done" => rc = CARGS_OK

\* C10 witness: a builtin was intercepted below the root while tokens were
\* still unscanned, and the call has returned.
C10_Witness ==
    /\ pc = "done" /\ Intercepted /\ cmd > 1 /\ i + 1 < Len(argv)


\* The first state at or after s in which the level parser is back at the
\* top of its scan loop or has returned.
RECURSIVE ToScan(_)
ToScan(s) ==
    IF s.pc \in {"scan", "ret", "done"} THEN s ELSE ToScan(Step(s))

\* The state after the level parser has dealt with the option at argv[i].
AfterOption(s) == ToScan(Step(s))

\* The tokens the level parser has not consumed.
Unconsumed(s) == SubSeq(s.argv, s.i + 1, Len(s.argv))

\* The current state with the n tokens from argv[i] on replaced by form.
WithForm(form, n) ==
    [Cur EXCEPT !.argv = SubSeq(argv, 1, i) \o form
                           \o SubSeq(argv, i + n + 1, Len(argv))]

\* A builtin that is enabled at the current level takes this long or short
\* name before the level's options are looked up.
Shadowed(long, short) ==
    LET env == ScenarioSeq[scn].env
    IN  \/ env.auto_help /\ (long = n_help \/ short = "h")
        \/ /\ depth = 0 /\ env.auto_version /\ env.version # NULL
           /\ (long = n_version \/ short = "v")
        \/ depth = 0 /\ env.auto_author /\ env.author # NULL /\ long = n_author

\* The options of the current level of this kind that have a long and a
\* short name, are found under both, and are not shadowed by a builtin.
NamedOptions(kind) ==
    { k \in 1..Len(CurOpts) :
        /\ CurOpts[k].arg = kind
        /\ CurOpts[k].long_name # NULL /\ CurOpts[k].short_name # ""
        /\ cargs_find_long(CurOpts, CurOpts[k].long_name) = k
        /\ cargs_find_short(CurOpts, CurOpts[k].short_name) = k
        /\ ~Shadowed(CurOpts[k].long_name, CurOpts[k].short_name) }

\* The four forms of option k with value v agree from a scan state whose
\* next tokens are "--N v": each runs the callback once with v, ends the
\* option in the same parser state with the same tokens unconsumed, and the
\* call returns the same status.
FormsAgree(k, v) ==
    LET o == CurOpts[k]
        base == AfterOption(Cur)
        forms == { <<1, <<LongEq(o.long_name, v)>>>>,
                   <<1, <<ShortAtt(o.short_name, v)>>>>,
                   <<2, <<Short(o.short_name), v>>>> }
    IN  /\ base.log = Append(log, Event("cb", cmd, k, o.cb, v, <<>>, "cli"))
        /\ Unconsumed(base) = SubSeq(argv, i + 3, Len(argv))
        /\ \A f \in forms :
              LET alt == AfterOption(WithForm(f[2], 2))
              IN  /\ alt.log = base.log
                  /\ alt.pc = base.pc /\ alt.lrc = base.lrc
                  /\ alt.counts = base.counts
                  /\ Unconsumed(alt) = Unconsumed(base)
                  /\ Outcome(RunToEnd(alt)) = Outcome(RunToEnd(base))

\* The scan is at "--N" of option k and a non-empty value follows.
AtLongForm(k) ==
    /\ pc = "scan" /\ i + 1 < Len(argv)
    /\ argv[i + 1] = Long(CurOpts[k].long_name)
    /\ argv[i + 2] # <<>>

\* C2 as stated: for every Required-kind option with a long and a short
\* name, not shadowed by a builtin, and every non-empty value, the forms
\* --N V, --N=V, -xV and -x V agree.
C2_FormsAgreeAsStated ==
    \A k \in NamedOptions(CARGS_ARG_REQUIRED) :
        AtLongForm(k) => FormsAgree(k, argv[i + 2])

\* C2 amended: the same for the options whose long name fits the level
\* parser's name buffer, that is, has fewer than 96 characters.
C2_RequiredFormsAgree ==
    \A k \in NamedOptions(CARGS_ARG_REQUIRED) :
        (AtLongForm(k) /\ Len(CurOpts[k].long_name) < NameBufSize)
            => FormsAgree(k, argv[i + 2])

\* C2 witness: "--jobs 10" was parsed and its callback got "10".
C2_Witness ==
    /\ pc = "scan" /\ i >= 3
    /\ argv[i - 1] = Long(n_jobs) /\ argv[i] = v_10
    /\ Len(log) > 0 /\ LastEvent.name = "cb_jobs" /\ LastEvent.val = v_10

\* A token looks numeric: a sign followed by a digit, by "." and a digit, or
\* by 0x or 0X.
SignedNumeric(tok) ==
    /\ Len(tok) >= 2 /\ tok[1] \in {"+", "-"}
    /\ \/ isdigit(tok[2])
       \/ Len(tok) >= 3 /\ tok[2] = "." /\ isdigit(tok[3])
       \/ Len(tok) >= 3 /\ tok[2] = "0" /\ tok[3] \in {"x", "X"}

\* The token at argv[n] exists and is to be taken as an Optional-kind
\* option's value.
IsOptionalValue(n) ==
    /\ n < Len(argv)
    /\ argv[n + 1] # DashDash
    /\ (Len(argv[n + 1]) = 0 \/ argv[n + 1][1] # "-" \/ SignedNumeric(argv[n + 1]))

\* Option k is matched without attached value, the next token being
\* argv[n]: its callback gets that token exactly if it is to be taken as
\* the value, and gets no value otherwise, the token staying unconsumed.
LookaheadDecides(k, n) ==
    LET e == Step(Cur)
        ev == e.log[Len(e.log)]
    IN  /\ Len(e.log) = Len(log) + 1
        /\ ev.ev = "cb" /\ ev.opt = k /\ ev.src = "cli"
        /\ IF IsOptionalValue(n)
           THEN ev.val = argv[n + 1] /\ e.i = n + 1
           ELSE ev.val = NULL /\ e.i = n

\* C3: an Optional-kind option without attached value, as the long form
\* --N or as the last character of a short cluster, takes the next token as
\* its value iff that token exists, is not "--", and does not start with
\* "-" or looks numeric; otherwise its callback gets no value and the next
\* token is left for the scan.
C3_OptionalLookahead ==
    \A k \in NamedOptions(CARGS_ARG_OPTIONAL) :
        /\ (pc = "scan" /\ i < Len(argv) /\ argv[i + 1] = Long(CurOpts[k].long_name))
               => LookaheadDecides(k, i + 1)
        /\ ( /\ pc = "cluster" /\ p = Len(argv[cl + 1]) - 1
             /\ argv[cl + 1][p + 1] = CurOpts[k].short_name )
               => LookaheadDecides(k, i)

\* C3 witness: -l took the following "-.5" as its value.
C3_Witness ==
    /\ Len(log) > 0 /\ LastEvent.name = "cb_limit_opt" /\ LastEvent.src = "cli"
    /\ LastEvent.val = <<"-", ".", "5">>
    /\ argv[i] = <<"-", ".", "5">> /\ argv[i - 1] = Short("l")


\* ---------------------------------------------------------------- C11
\* The callback results of the command-line events of the log.
CliResult(e) == CallCb(e.name, e.val)

\* A callback made for a command-line token has returned a negative value.
CliCallbackFailed ==
    \E k \in 1..Len(log) :
        log[k].ev = "cb" /\ log[k].src = "cli" /\ CliResult(log[k]) < 0

\* From the failure of a command-line callback on the call only returns:
\* the failed callback is the last thing that happened and the level parser
\* has returned its result.
FailedCallbackEndsCall ==
    CliCallbackFailed =>
        /\ LastEvent.ev = "cb" /\ LastEvent.src = "cli"
        /\ CliResult(LastEvent) < 0
        /\ pc \in {"ret", "done"}
        /\ lrc = CliResult(LastEvent)

\* A command-line callback that returns zero or more lets the scan go on.
CallbackStep ==
    (Len(log') = Len(log) + 1 /\ log'[Len(log')].ev = "cb"
         /\ log'[Len(log')].src = "cli" /\ CliResult(log'[Len(log')]) >= 0)
        => pc' \in {"scan", "cluster"}

\* C11 as stated: a negative result of a command-line callback ends the call
\* at once, and the call returns CARGS_ERR_BAD_FORMAT.
C11_CallbackFailureIsBadFormat ==
    /\ FailedCallbackEndsCall
    /\ (CliCallbackFailed /\ pc = "done") => rc = CARGS_ERR_BAD_FORMAT

\* C11 amended: a negative result of a command-line callback ends the call
\* at once (no later token, enforcement, validation or handler), and the
\* call returns that negative result unchanged; a zero or positive result
\* lets the scan continue.
C11_CallbackFailureReturned ==
    /\ [](FailedCallbackEndsCall
            /\ ((CliCallbackFailed /\ pc = "done") => rc = CliResult(LastEvent)))
    /\ [][CallbackStep]_vars

\* C11 witness: cb_format rejected "xml" with -1 while a token was still
\* unscanned, and the call returned -1.
C11_Witness ==
    /\ pc = "done" /\ CliCallbackFailed /\ LastEvent.name = "cb_format"
    /\ rc = CARGS_ERR_UNKNOWN /\ i < Len(argv)


\* ---------------------------------------------------------------- C12
\* The codes of the failures the engine detects.
FailureCodes ==
    { CARGS_ERR_UNKNOWN, CARGS_ERR_MISSING_VAL, CARGS_ERR_BAD_FORMAT,
      CARGS_ERR_GROUP, CARGS_ERR_POSITIONAL, CARGS_ERR_TOO_MANY }

\* The level parser has returned a failure to the dispatcher.
LevelFailed == pc = "ret" /\ lrc < 0

\* The Positional Validator is about to reject the leftover tokens.
PositionalFails ==
    /\ pc = "validate"
    /\ cargs_validate_positional(ScenarioSeq[scn].tree[cmd], Len(argv) - idx) < 0

\* The call ends with status code and with nothing called since.
EndsWith(code) ==
    LET e == RunToEnd(Cur) IN e.rc = code /\ e.log = log

\* What was called stays called: the log only grows at its end.
LogOnlyGrows ==
    Len(log') >= Len(log) /\ SubSeq(log', 1, Len(log)) = log

\* C12: the first failure ends the call: the call returns exactly the code
\* of the failure, nothing is called after it, no handler has run, and what
\* the callbacks before it did stays done.
C12_FirstFailureEndsDispatch ==
    /\ [](/\ LevelFailed => EndsWith(lrc)
          /\ PositionalFails =>
                 EndsWith(cargs_validate_positional(ScenarioSeq[scn].tree[cmd],
                                                    Len(argv) - idx))
          /\ (pc = "done" /\ rc < 0) => ~HandlerRan)
    /\ [][LogOnlyGrows]_vars

\* C12 witness: two callbacks of a MutuallyExclusive group ran, the level
\* then failed with GroupViolation, and the call returned that code with
\* both callbacks still in the log.
C12_Witness ==
    /\ pc = "done" /\ rc = CARGS_ERR_GROUP /\ rc \in FailureCodes
    /\ Len(log) = 2 /\ log[1].ev = "cb" /\ log[2].ev = "cb"


\* ---------------------------------------------------------------- C13
\* The handler events of the log.
RunEvents == { k \in 1..Len(log) : log[k].ev = "run" }

\* C13: when descent has stopped and the positionals are valid, a node with
\* a handler has it invoked once, with the leftover tokens in order, and
\* the call returns the handler's result; a node without handler has its
\* help rendered and the call returns success.
C13_LeafRunsHandlerOrHelp ==
    pc = "run" =>
        LET node == ScenarioSeq[scn].tree[cmd]
            rest == SubSeq(argv, idx + 1, Len(argv))
            e == RunToEnd(Cur)
            last == e.log[Len(e.log)]
        IN  /\ RunEvents = {}
            /\ Len(e.log) = Len(log) + 1
            /\ e.cmd = cmd
            /\ IF node.run # ""
               THEN /\ last.ev = "run" /\ last.node = cmd
                    /\ last.name = node.run /\ last.args = rest
                    /\ e.rc = CallRun(node.run, rest)
               ELSE /\ last.ev = "help" /\ last.node = cmd
                    /\ e.rc = CARGS_OK

\* C13 witness: run_cp got one positional and returned 1, which the call
\* returned.
C13_Witness ==
    /\ pc = "done" /\ rc = 1 /\ Cardinality(RunEvents) = 1
    /\ LastEvent.name = "run_cp" /\ LastEvent.args = <<<<"x">>>>

\* C13 second case reached: "remote" has no handler, its help was rendered.
C13_HelpWitness ==
    /\ pc = "done" /\ rc = CARGS_OK /\ cmd = 2 /\ HelpShown


\* ---------------------------------------------------------------- C14
\* The option an event of the log belongs to.
OptionOf(e) == ScenarioSeq[scn].tree[e.node].opts[e.opt]

\* Every callback invoked with an absent value belongs to a None-kind or an
\* Optional-kind option matched on the command line.
NullOnlyWithoutRequired ==
    \A k \in 1..Len(log) :
        (log[k].ev = "cb" /\ log[k].val = NULL)
            => /\ OptionOf(log[k]).arg \in {CARGS_ARG_NONE, CARGS_ARG_OPTIONAL}
               /\ log[k].src = "cli"

\* The scan is at the long form --N of option k, the last token of argv.
AtLastLong(k) ==
    /\ pc = "scan" /\ i = Len(argv) - 1
    /\ argv[i + 1] = Long(CurOpts[k].long_name)

\* The cluster scan is at the short name of option k, which ends the
\* cluster, and the cluster is the last token of argv.
AtLastShort(k) ==
    /\ pc = "cluster" /\ i = Len(argv) /\ cl = Len(argv) - 1
    /\ p = Len(argv[cl + 1]) - 1
    /\ argv[cl + 1][p + 1] = CurOpts[k].short_name

\* The level parser fails with MissingValue without calling anything.
FailsMissingValue ==
    LET e == Step(Cur)
    IN  e.pc = "ret" /\ e.lrc = CARGS_ERR_MISSING_VAL /\ e.log = log

\* C14: a Required-kind option that is the last token of argv without an
\* attached value fails with MissingValue and its callback is not invoked;
\* a Required-kind option's callback never gets an absent value, which only
\* None-kind options and Optional-kind options without a value get.
C14_RequiredNeverGetsNull ==
    /\ NullOnlyWithoutRequired
    /\ \A k \in 1..Len(CurOpts) :
           CurOpts[k].arg = CARGS_ARG_REQUIRED =>
               /\ ( /\ CurOpts[k].long_name # NULL
                    /\ ~Shadowed(CurOpts[k].long_name, "")
                    /\ AtLastLong(k) ) => FailsMissingValue
               /\ ( /\ CurOpts[k].short_name # ""
                    /\ ~Shadowed(NULL, CurOpts[k].short_name)
                    /\ AtLastShort(k) ) => FailsMissingValue

\* C14 witness: in the last token -Vj the flag V was called, j had no value,
\* and the call returned MissingValue without calling cb_jobs.
C14_Witness ==
    /\ pc = "done" /\ rc = CARGS_ERR_MISSING_VAL
    /\ argv[Len(argv)] = <<"-", "V", "j">>
    /\ Len(log) > 0 /\ LastEvent.name = "cb_verbose" /\ LastEvent.val = NULL


\* ---------------------------------------------------------------- C15
\* The name of the long option token tok: what follows "--" up to the
\* first "=".
LongNameOf(tok) ==
    LET raw == SubSeq(tok, 3, Len(tok))
        eq == strchr(raw, "=")
    IN  IF eq >= 0 THEN SubSeq(raw, 1, eq) ELSE raw

HasEquals(tok) == \E k \in 1..Len(tok) : tok[k] = "="

\* No option of the current level has this long name.
UndeclaredLong(name) ==
    \A k \in 1..Len(CurOpts) : CurOpts[k].long_name # name

\* No option of the current level has this short name.
UndeclaredShort(c) ==
    \A k \in 1..Len(CurOpts) : CurOpts[k].short_name # c

\* The scan is at a long option token whose name is neither an enabled
\* builtin nor declared at the current level.
AtUnknownLong ==
    /\ pc = "scan" /\ i < Len(argv)
    /\ Len(argv[i + 1]) >= 2 /\ SubSeq(argv[i + 1], 1, 2) = DashDash
    /\ argv[i + 1] # DashDash
    /\ UndeclaredLong(LongNameOf(argv[i + 1]))
    /\ ~Shadowed(LongNameOf(argv[i + 1]), "")

\* The cluster scan is at a character that is neither an enabled builtin
\* nor declared at the current level.
AtUnknownShort ==
    /\ pc = "cluster" /\ p < Len(argv[cl + 1])
    /\ UndeclaredShort(argv[cl + 1][p + 1])
    /\ ~Shadowed(NULL, argv[cl + 1][p + 1])

\* The level parser fails with Unknown, what was called before stays in the
\* log, and nothing is called any more before the call returns Unknown.
FailsUnknown ==
    LET e == Step(Cur)
        f == RunToEnd(Cur)
    IN  /\ e.pc = "ret" /\ e.lrc = CARGS_ERR_UNKNOWN /\ e.log = log
        /\ f.rc = CARGS_ERR_UNKNOWN /\ f.log = log

\* C15 as stated: every long option token with an unknown name and every
\* unknown character of a short cluster fails with Unknown.
C15_UnknownAsStated ==
    (AtUnknownLong \/ AtUnknownShort) => FailsUnknown

\* C15 amended: the same, except that a long token --NAME=VALUE whose name
\* has 96 characters or more fails with BadFormat before any lookup.
C15_UnknownOption ==
    /\ ( /\ AtUnknownLong
         /\ HasEquals(argv[i + 1]) => Len(LongNameOf(argv[i + 1])) < NameBufSize )
           => FailsUnknown
    /\ AtUnknownShort => FailsUnknown
    /\ ( /\ AtUnknownLong /\ HasEquals(argv[i + 1])
         /\ Len(LongNameOf(argv[i + 1])) >= NameBufSize )
           => Step(Cur).lrc = CARGS_ERR_BAD_FORMAT

\* C15 witness: in the cluster -VZ the flag V was called, Z is unknown, and
\* the call returned Unknown with the callback of V still the last event.
C15_Witness ==
    /\ pc = "done" /\ rc = CARGS_ERR_UNKNOWN
    /\ cl > 0 /\ argv[cl + 1] = <<"-", "V", "Z">>
    /\ Len(log) > 0 /\ LastEvent.name = "cb_verbose"


\* ---------------------------------------------------------------- C16
\* The node the subcommand tokens names lead to from node n.
RECURSIVE WalkPath(_, _)
WalkPath(n, names) ==
    IF names = <<>> THEN n
    ELSE WalkPath(find_sub_from(ScenarioSeq[scn].tree,
                                ScenarioSeq[scn].tree[n].subs, names[1], 1),
                  Tail(names))

\* The node whose level is being parsed: where the consumed subcommand
\* tokens lead.
ScopeNode == WalkPath(1, path)

\* The parent and the children of the node n.
Relatives(n) ==
    { q \in 1..Len(ScenarioSeq[scn].tree) :
        \/ \E c \in 1..Len(ScenarioSeq[scn].tree[q].subs) :
               ScenarioSeq[scn].tree[q].subs[c] = n
        \/ \E c \in 1..Len(ScenarioSeq[scn].tree[n].subs) :
               ScenarioSeq[scn].tree[n].subs[c] = q }

DeclaresLong(n, name) ==
    \E k \in 1..Len(ScenarioSeq[scn].tree[n].opts) :
        ScenarioSeq[scn].tree[n].opts[k].long_name = name

DeclaresShort(n, c) ==
    \E k \in 1..Len(ScenarioSeq[scn].tree[n].opts) :
        ScenarioSeq[scn].tree[n].opts[k].short_name = c

\* The scan is at a long option, not a builtin here, that the level's own
\* node does not declare but its parent or a child does.
AtForeignLong ==
    /\ pc = "scan" /\ i < Len(argv)
    /\ Len(argv[i + 1]) > 2 /\ SubSeq(argv[i + 1], 1, 2) = DashDash
    /\ ~HasEquals(argv[i + 1])
    /\ ~Shadowed(LongNameOf(argv[i + 1]), "")
    /\ ~DeclaresLong(ScopeNode, LongNameOf(argv[i + 1]))
    /\ \E q \in Relatives(ScopeNode) : DeclaresLong(q, LongNameOf(argv[i + 1]))

\* The same for a character of a short cluster.
AtForeignShort ==
    /\ pc = "cluster" /\ p < Len(argv[cl + 1])
    /\ ~Shadowed(NULL, argv[cl + 1][p + 1])
    /\ ~DeclaresShort(ScopeNode, argv[cl + 1][p + 1])
    /\ \E q \in Relatives(ScopeNode) : DeclaresShort(q, argv[cl + 1][p + 1])

\* C16: the level being parsed is that of the node the subcommand tokens
\* lead to, and an option that only the parent or only a child of that node
\* declares is Unknown there: no other level's options are consulted.
C16_OptionsScopedToLevel ==
    /\ pc \in {"scan", "cluster"} => cmd = ScopeNode
    /\ \A k \in 1..Len(log) :
           log[k].ev = "cb" =>
               \E d \in 0..Len(path) :
                   log[k].node = WalkPath(1, SubSeq(path, 1, d))
    /\ (AtForeignLong \/ AtForeignShort) => FailsUnknown

\* C16 witness: after the subcommand token "add" the root's flag -V was
\* given, and the call returned Unknown without calling cb_verbose.
C16_Witness ==
    /\ pc = "done" /\ rc = CARGS_ERR_UNKNOWN /\ path = <<n_add>>
    /\ cl > 0 /\ argv[cl + 1] = Short("V") /\ log = <<>>

\* C16 second case reached: the child's option --jobs before the subcommand
\* token is Unknown at the root.
C16_ChildOptionWitness ==
    /\ pc = "done" /\ rc = CARGS_ERR_UNKNOWN /\ path = <<>>
    /\ Len(ScenarioSeq[scn].tree) > 1 /\ DeclaresLong(2, n_jobs)
    /\ Len(argv) > 2
    /\ argv[2] = Long(n_jobs) /\ argv[3] = n_add


\* ---------------------------------------------------------------- C17
\* The step taken from the current state does not intercept a builtin.
NotIntercepted ==
    LET e == Step(Cur)
    IN  e.lrc # CARGS_DONE /\ (e.log = log \/ e.log[Len(e.log)].ev = "cb")

\* The step taken from the current state looks the option up at the
\* current level: Unknown when no option has the name, otherwise the
\* callback of the first option that has it is invoked.
LookedUp(k) ==
    LET e == Step(Cur)
    IN  IF k = 0 THEN e.pc = "ret" /\ e.lrc = CARGS_ERR_UNKNOWN /\ e.log = log
        ELSE /\ Len(e.log) = Len(log) + 1
             /\ e.log[Len(e.log)].ev = "cb" /\ e.log[Len(e.log)].node = cmd
             /\ e.log[Len(e.log)].opt = k

\* The step taken from the current state prints the help of the current
\* node and makes the level parser return CARGS_DONE.
HelpIntercepted ==
    LET e == Step(Cur)
    IN  /\ e.pc = "ret" /\ e.lrc = CARGS_DONE
        /\ Len(e.log) = Len(log) + 1
        /\ e.log[Len(e.log)].ev = "help" /\ e.log[Len(e.log)].node = cmd

\* The token being scanned, or the empty token when there is none.
ScannedToken == IF pc = "scan" /\ i < Len(argv) THEN argv[i + 1] ELSE <<>>

\* The cluster character being scanned, or NUL when there is none.
ScannedChar ==
    IF pc = "cluster" /\ p < Len(argv[cl + 1]) THEN argv[cl + 1][p + 1] ELSE NUL

\* Options with these names that take no value, as the lookup test needs a
\* step that ends in the callback.
FlagAt(k) == k = 0 \/ CurOpts[k].arg = CARGS_ARG_NONE

\* C17: version and author outputs happen at the root only; below the root
\* --version, -v and --author are looked up among the level's own options,
\* Unknown when not declared; --help and -h are intercepted at every level
\* when auto-help is enabled.
C17_VersionAuthorRootOnly ==
    /\ \A k \in 1..Len(log) :
           log[k].ev \in {"version", "author"} => log[k].node = 1 /\ path = <<>>
    /\ (depth > 0 /\ (ScannedToken \in {Long(n_version), Long(n_author)}
                        \/ ScannedChar = "v"))
           => NotIntercepted
    /\ (depth > 0 /\ ScannedToken \in {Long(n_version), Long(n_author)}
          /\ FlagAt(cargs_find_long(CurOpts, LongNameOf(ScannedToken))))
           => LookedUp(cargs_find_long(CurOpts, LongNameOf(ScannedToken)))
    /\ (depth > 0 /\ ScannedChar = "v" /\ FlagAt(cargs_find_short(CurOpts, "v")))
           => LookedUp(cargs_find_short(CurOpts, "v"))
    /\ (ScenarioSeq[scn].env.auto_help
          /\ (ScannedToken = Long(n_help) \/ ScannedChar = "h"))
           => HelpIntercepted

\* C17 witness: below the root --version was not intercepted but called the
\* callback of the child's own option named version.
C17_Witness ==
    /\ pc = "done" /\ depth = 1 /\ cmd = 2 /\ rc = CARGS_OK
    /\ argv[Len(argv)] = Long(n_version)
    /\ \E k \in 1..Len(log) :
           /\ log[k].ev = "cb" /\ log[k].node = 2
           /\ ScenarioSeq[scn].tree[2].opts[log[k].opt].long_name = n_version

\* C17 further cases reached: --author is Unknown below the root, and help
\* is intercepted below the root.
C17_AuthorUnknownWitness ==
    /\ pc = "done" /\ depth = 1 /\ rc = CARGS_ERR_UNKNOWN
    /\ argv[Len(argv)] = Long(n_author)

C17_HelpBelowRootWitness ==
    /\ pc = "done" /\ depth > 0 /\ Intercepted /\ LastEvent.ev = "help"
    /\ LastEvent.node = cmd /\ cmd > 1


\* ---------------------------------------------------------------- C18
\* The overlay callbacks node n is owed, from its option k on: for each
\* option in declaration order, one with the value of its environment
\* variable if that is set, else one with its static default if it has one.
RECURSIVE OverlayEvents(_, _)
OverlayEvents(n, k) ==
    LET opts == ScenarioSeq[scn].tree[n].opts
        environ == ScenarioSeq[scn].environ
    IN  IF k > Len(opts) THEN <<>>
        ELSE LET o == opts[k]
                 val == IF o.env # "" /\ o.env \in DOMAIN environ
                        THEN environ[o.env] ELSE o.def
             IN  (IF val # NULL /\ o.cb # ""
                  THEN <<Event("cb", n, k, o.cb, val, <<>>, "env")>>
                  ELSE <<>>) \o OverlayEvents(n, k + 1)

AtCurrentNode(e) == e.ev = "cb" /\ e.node = cmd

\* The callbacks made so far at the level of the current node.
LevelLog == SelectSeq(log, AtCurrentNode)

\* C18: at every level the overlay callbacks come first, in declaration
\* order, each with the environment value if set and else the default, and
\* only then the callbacks for command-line tokens; so when an option is
\* also given explicitly, its last callback is the explicit one.
C18_OverlayBeforeTokens ==
    (pc \notin {"entry", "level"} /\ Len(argv) > 0) =>
        LET owed == OverlayEvents(cmd, 1)
        IN  /\ Len(LevelLog) >= Len(owed)
            /\ SubSeq(LevelLog, 1, Len(owed)) = owed
            /\ \A k \in (Len(owed) + 1)..Len(LevelLog) : LevelLog[k].src = "cli"
            /\ \A k \in 1..Len(LevelLog) :
                   LevelLog[k].src = "cli" =>
                       \E m \in k..Len(LevelLog) :
                           /\ LevelLog[m].opt = LevelLog[k].opt
                           /\ LevelLog[m].src = "cli"
                           /\ \A n \in (m + 1)..Len(LevelLog) :
                                  LevelLog[n].opt # LevelLog[k].opt

\* C18 witness: the default "json" of --format was applied first, then the
\* explicit --format yaml, and the handler ran.
C18_Witness ==
    /\ pc = "done" /\ rc = CARGS_OK /\ Len(log) = 3
    /\ log[1].src = "env" /\ log[1].name = "cb_format" /\ log[1].val = n_json
    /\ log[2].src = "cli" /\ log[2].name = "cb_format" /\ log[2].val = n_yaml
    /\ log[3].ev = "run"

\* C18 second case reached: the environment value was preferred to the
\* default.
C18_EnvWitness ==
    /\ pc = "done" /\ Len(log) > 0
    /\ log[1].src = "env" /\ log[1].name = "cb_format" /\ log[1].val = n_yaml


\* ---------------------------------------------------------------- C19
\* C19: for every group id 1..32 that the level's options declare with a
\* policy, the policy bit is in the level's mask (none is lost, the one of
\* group 32 as little as the one of group 1), and the enforcement fails
\* with GroupViolation exactly when a declared MutuallyExclusive group has
\* a counter above 1 or a declared ExactlyOne group a counter other than 1.
C19_EveryGroupEnforced ==
    /\ pc \in {"scan", "cluster", "enforce"} =>
           /\ xor_mask = GroupsOf(CARGS_GRP_XOR)
           /\ req_mask = GroupsOf(CARGS_GRP_REQ_ONE)
    /\ pc = "enforce" =>
           ( Step(Cur).lrc = CARGS_ERR_GROUP
               <=> \/ \E g \in GroupsOf(CARGS_GRP_XOR) : counts[g] > 1
                   \/ \E g \in GroupsOf(CARGS_GRP_REQ_ONE) : counts[g] # 1 )


\* --------------------------------------------------------------- C20
\* The call of the size helper has returned; its text and its parts.
SizeReturned == conv.phase = "returned" /\ conv.fn = "cargs_read_size"
SizeArg == conv.arg

\* v * radix^p for the parts of the text, as the numerator over 10^frac:
\* the radix is 1024 when an i follows the unit letter and the caller's
\* preference otherwise.
StatedRadix == IF HasI(SizeArg.unit) \/ conv.prefer_iec THEN 1024 ELSE 1000
StatedDen == IF SizeArg.lit.frac < 0 THEN 1 ELSE 10
StatedNum ==
    BigPowMul(BigOfInt(IF SizeArg.lit.frac < 0 THEN SizeArg.lit.int
                       ELSE SizeArg.lit.int * 10 + SizeArg.lit.frac),
              StatedRadix, PowerOf(SizeArg.unit))

\* The product rounded to the nearest integer, halves upwards.
StatedBytes == BigDiv(BigAdd(BigMul(StatedNum, 2), StatedDen), 2 * StatedDen)

IsBlankSeq(q) == \A k \in 1..Len(q) : IsBlank(q[k])

\* Nothing but the literal, the optional blanks and the optional unit:
\* without a unit the blanks after the literal are the optional ones.
NothingTrailing ==
    \/ SizeArg.tail = <<>>
    \/ SizeArg.unit = <<>> /\ IsBlankSeq(SizeArg.tail)

Example128MiB ==
    conv.str = <<"1", "2", "8", "M", "i", "B">> /\ conv.prefer_iec
        => conv.res.rc = CARGS_OK /\ conv.res.out = BigOfInt(134217728)

Example5MB ==
    conv.str = <<"5", "M", "B">> /\ ~conv.prefer_iec
        => conv.res.rc = CARGS_OK /\ conv.res.out = BigOfInt(5000000)

TailAccepted ==
    /\ IsBlankSeq(SizeArg.tail)
    /\ SizeArg.tail # <<>> =>
           ~(HasI(SizeArg.unit) /\ Len(SizeArg.unit) = 2)

\* The product is above 2^64; the rounded product is 2^64 or more.
ProductAboveRange ==
    BigLess(BigMul(UINT64_MAX_AS_DOUBLE, StatedDen), StatedNum)
RoundsOutOfRange == ~BigLess(StatedBytes, UINT64_MAX_AS_DOUBLE)

C20_TrailingBlankWitness ==
    /\ SizeReturned
    /\ conv.str = <<"5", "K", " ">>
    /\ conv.res.rc = CARGS_OK /\ conv.res.out = BigOfInt(5000)

\* A product above 2^64 has failed.
C20_RangeWitness ==
    /\ SizeReturned
    /\ conv.str = <<"1", "9", "E">>
    /\ conv.res.rc = -1

\* A product of 2^64 has passed the range test and 0 has been stored.
C20_UndefinedWitness ==
    /\ SizeReturned
    /\ conv.str = <<"1", "6", "E", "i">>
    /\ conv.res.rc = CARGS_OK /\ conv.res.out = <<>>

\* A fraction has been rounded.
C20_RoundingWitness ==
    /\ SizeReturned
    /\ conv.str = <<"1", ".", "5">>
    /\ conv.res.out = BigOfInt(2)


\* --------------------------------------------------------------- C21
\* The call of the formatter has returned into a buffer with room for the
\* whole text.
FmtReturned ==
    conv.phase = "returned" /\ conv.fn = "cargs_fmt_bytes" /\ conv.bufsz = 32

FmtRadix == IF conv.prefer_iec THEN 1024 ELSE 1000

\* The printed text up to its unit, and the digits before the point.
RECURSIVE NumberEnd(_, _)
NumberEnd(q, k) ==
    IF k < Len(q) /\ (IsDigit(q[k + 1]) \/ q[k + 1] = ".")
    THEN NumberEnd(q, k + 1)
    ELSE k

PrintedNumber == SubSeq(conv.buf, 1, NumberEnd(conv.buf, 0))
PrintedUnit == SubSeq(conv.buf, NumberEnd(conv.buf, 0) + 1, Len(conv.buf))
PrintedWhole == DigitsValue(conv.buf, 0, SkipDigits(conv.buf, 0))
HasPoint == \E k \in 1..Len(conv.buf) : conv.buf[k] = "."

\* The divisions the count takes until the quotient is below the radix,
\* at most 6, and whether the quotient reached is 10 or more.
StatedDivisions == FmtDivisions(conv.bytes, FmtRadix, 0)
QuotientAtLeast10 ==
    ~BigLess(conv.bytes,
             BigMul(BigPowMul(<<1>>, FmtRadix, StatedDivisions), 10))

Example12MB ==
    conv.bytes = BigOfInt(12000000) /\ ~conv.prefer_iec
        => conv.buf = <<"1", "2", "M", "B">>

\* C21: cargs_fmt_bytes labels the count with the unit reached by dividing
\* by the radix while the quotient is at least the radix, at most 6 times;
\* the printed quotient is below the radix, and it has no decimals when it
\* is 10 or more or zero decimals were asked for; 12 MB prints as 12MB.
C21_FmtBytesAsStated ==
    FmtReturned =>
        /\ PrintedUnit = (IF conv.prefer_iec THEN U_IEC ELSE U_SI)
                             [StatedDivisions + 1]
        /\ PrintedWhole < FmtRadix
        /\ QuotientAtLeast10 \/ conv.decimals = 0 => ~HasPoint
        /\ Example12MB

\* What holds of the unit and the decimals alone, for the counts a double
\* holds exactly.
FmtUnitAndDecimals ==
    FmtReturned /\ BigLess(conv.bytes, DBL_MANT_LIMIT) =>
        /\ PrintedUnit = (IF conv.prefer_iec THEN U_IEC ELSE U_SI)
                             [StatedDivisions + 1]
        /\ QuotientAtLeast10 \/ conv.decimals = 0 => ~HasPoint
        /\ Example12MB

\* 999999 has been printed with radix 1000 as 1000KB.
C21_PrintsRadix ==
    /\ FmtReturned
    /\ conv.bytes = BigOfInt(999999) /\ ~conv.prefer_iec
    /\ conv.buf = <<"1", "0", "0", "0", "K", "B">>


\* --------------------------------------------------------------- C22
\* The call of the unsigned reader has returned; the parts of its text.
UintReturned == conv.phase = "returned" /\ conv.fn = "cargs_read_uint64"
UintArg == conv.arg

AllBelow(q, base) == \A k \in 1..Len(q) : DigitOf(q[k]) < base

\* The body is a numeral: 0x and hexadecimal digits, 0 and octal digits,
\* or decimal digits; the digits after its prefix, and its base.
IsHexBody(q) ==
    /\ Len(q) > 2 /\ q[1] = "0" /\ q[2] \in {"x", "X"}
    /\ AllBelow(SubSeq(q, 3, Len(q)), 16)
IsOctalBody(q) == Len(q) > 0 /\ q[1] = "0" /\ AllBelow(q, 8)
IsDecimalBody(q) == Len(q) > 0 /\ q[1] # "0" /\ AllBelow(q, 10)
IsNumeral(q) == IsHexBody(q) \/ IsOctalBody(q) \/ IsDecimalBody(q)

\* The magnitude a numeral denotes, 2^64 standing for all above ULLONG_MAX.
Magnitude(q) ==
    IF IsHexBody(q) THEN BaseValue(q, 2, Len(q), 16, <<>>)
    ELSE BaseValue(q, 0, Len(q), IF IsOctalBody(q) THEN 8 ELSE 10, <<>>)

\* The text denotes an integer outside 0..2^64-1.
UintOutOfRange ==
    /\ IsNumeral(UintArg.body)
    /\ \/ BigLess(ULLONG_MAX, Magnitude(UintArg.body))
       \/ UintArg.sign = <<"-">> /\ Magnitude(UintArg.body) # <<>>

UintGarbage == UintArg.tail # <<>> \/ ~IsNumeral(UintArg.body)

\* C22: cargs_read_uint64 rejects empty input, input with trailing
\* garbage and input whose value lies outside 0..2^64-1, and when it
\* succeeds the stored result is the integer the text denotes.
C22_ReadUint64AsStated ==
    UintReturned =>
        IF conv.str = NULL \/ conv.str = <<>> THEN conv.res.rc = -1
        ELSE /\ UintGarbage \/ UintOutOfRange => conv.res.rc = -1
             /\ conv.res.rc = CARGS_OK =>
                    /\ IsNumeral(UintArg.body)
                    /\ UintArg.sign # <<"-">> \/ Magnitude(UintArg.body) = <<>>
                    /\ conv.res.out = Magnitude(UintArg.body)

\* What holds for the texts without a minus sign.
UintWithoutMinus ==
    UintReturned /\ conv.str # NULL /\ conv.str # <<>>
                 /\ UintArg.sign # <<"-">> =>
        IF UintGarbage \/ UintOutOfRange THEN conv.res.rc = -1
        ELSE /\ conv.res.rc = CARGS_OK
             /\ conv.res.out = Magnitude(UintArg.body)

\* -1 has been read as 2^64 - 1.
C22_MinusOneAccepted ==
    /\ UintReturned
    /\ conv.str = <<"-", "1">>
    /\ conv.res.rc = CARGS_OK /\ conv.res.out = AllOnes64


\* --------------------------------------------------------------- C23
\* tok is the name or an alias of a child of the current node.
IsChildToken(tok) ==
    \E c \in 1..Len(ScenarioSeq[scn].tree[cmd].subs) :
        LET child == ScenarioSeq[scn].tree[ScenarioSeq[scn].tree[cmd].subs[c]]
        IN  \/ child.name = tok
            \/ \E a \in 1..Len(child.aliases) : child.aliases[a] = tok

\* The level scan is at a token that does not start with "-" and names no
\* child, and the group policies of the level are met.
ScanStopsAtWord ==
    /\ pc = "scan" /\ i < Len(argv)
    /\ argv[i + 1] = <<>> \/ argv[i + 1][1] # "-"
    /\ ~IsChildToken(argv[i + 1])
    /\ EnforceGroups(Cur).lrc = CARGS_OK

\* The token the scan is at and every token after it.
FromScanOn == SubSeq(argv, i + 1, Len(argv))

\* C23: when the level scan stops at a token that does not start with "-"
\* and is not the name or an alias of a child, descent stops at the current
\* node: the Positional Validator counts that token and every token after
\* it, and the handler gets exactly these tokens, in order, whatever they
\* look like; nothing else is called for them.
C23_WordEndsOptionsAndDescent ==
    ScanStopsAtWord =>
        LET e == RunToEnd(Cur)
            node == ScenarioSeq[scn].tree[cmd]
            verdict == PositionalVerdict(CurSchema, Len(FromScanOn))
        IN  /\ e.cmd = cmd
            /\ IF verdict # CARGS_OK THEN e.rc = verdict /\ e.log = log
               ELSE IF node.run = ""
               THEN e.log = Append(log, Event("help", cmd, 0, "", NULL, <<>>, "cli"))
               ELSE e.log = Append(log, Event("run", cmd, 0, node.run, NULL,
                                              FromScanOn, "cli"))

\* The scan stops at a word that is followed by a "--", and the handler of
\* the node is owed all of them.
C23_Witness ==
    /\ ScanStopsAtWord
    /\ ScenarioSeq[scn].tree[cmd].run # ""
    /\ PositionalVerdict(CurSchema, Len(FromScanOn)) = CARGS_OK
    /\ \E k \in 2..Len(FromScanOn) : FromScanOn[k] = DashDash

\* The scan stops at a word that is followed by an option of the level.
C23_OptionAfterWordWitness ==
    /\ ScanStopsAtWord
    /\ ScenarioSeq[scn].tree[cmd].run # ""
    /\ \E k \in 2..Len(FromScanOn) : FromScanOn[k] = Short("V")
    /\ cargs_find_short(ScenarioSeq[scn].tree[cmd].opts, "V") # 0

\* The scan stops at a word that is followed by the name of a child.
C23_ChildAfterWordWitness ==
    /\ ScanStopsAtWord
    /\ \E k \in 2..Len(FromScanOn) : IsChildToken(FromScanOn[k])


\* ---------------------------------------------------------------- C24
\* The scan is at the bare long form --N of option k, and a token follows.
AtBareLong(k) ==
    /\ pc = "scan" /\ i + 1 < Len(argv)
    /\ CurOpts[k].long_name # NULL
    /\ argv[i + 1] = Long(CurOpts[k].long_name)
    /\ cargs_find_long(CurOpts, CurOpts[k].long_name) = k
    /\ ~Shadowed(CurOpts[k].long_name, "")

\* The cluster scan is at the short name of option k, which ends the
\* cluster, and a token follows the cluster.
AtBareShort(k) ==
    /\ pc = "cluster" /\ i < Len(argv)
    /\ p = Len(argv[cl + 1]) - 1
    /\ CurOpts[k].short_name # ""
    /\ argv[cl + 1][p + 1] = CurOpts[k].short_name
    /\ cargs_find_short(CurOpts, CurOpts[k].short_name) = k
    /\ ~Shadowed(NULL, CurOpts[k].short_name)

\* The next step calls the callback of option k with the token tok as its
\* value and nothing else; the terminator and the node stay as they are,
\* and the scan goes on at position after unless the callback refuses.
TakesToken(k, tok, after, next) ==
    LET e == Step(Cur)
        r == CallCb(CurOpts[k].cb, tok)
    IN  /\ e.log = Append(log, Event("cb", cmd, k, CurOpts[k].cb, tok, <<>>, "cli"))
        /\ e.dashdash = dashdash /\ e.cmd = cmd /\ e.depth = depth
        /\ IF r < 0 THEN e.pc = "ret" /\ e.lrc = r
           ELSE e.pc = next /\ e.i = after

\* C24: a Required-kind option without an attached value takes the next
\* token as its value whatever the token is (one that starts with "-", one
\* equal to a declared option, a subcommand name, or "--"): the callback
\* gets that token, and the token is passed over without being read as an
\* option, a terminator or a subcommand.
C24_RequiredTakesNextToken ==
    \A k \in 1..Len(CurOpts) :
        CurOpts[k].arg = CARGS_ARG_REQUIRED =>
            /\ AtBareLong(k) => TakesToken(k, argv[i + 2], i + 2, "scan")
            /\ AtBareShort(k) => TakesToken(k, argv[i + 1], i + 1, "cluster")

\* The option that is at the scan position and takes the token tok.
RequiredBefore(tok) ==
    \E k \in 1..Len(CurOpts) :
        /\ CurOpts[k].arg = CARGS_ARG_REQUIRED
        /\ \/ AtBareLong(k) /\ argv[i + 2] = tok
           \/ AtBareShort(k) /\ argv[i + 1] = tok
        /\ CallCb(CurOpts[k].cb, tok) = CARGS_OK

\* C24 witness: "--" is the value of a Required-kind option.
C24_Witness == RequiredBefore(DashDash)

\* A negative number is the value.
C24_NegativeWitness == RequiredBefore(<<"-", "1">>)

\* A declared option of the level is the value.
C24_OptionWitness ==
    /\ RequiredBefore(Short("V"))
    /\ cargs_find_short(CurOpts, "V") # 0

\* The name of a child is the value, and the handler of the parent ran.
C24_SubcommandWitness ==
    /\ pc = "done" /\ rc = CARGS_OK /\ cmd = 1
    /\ argv = <<Prog, Long(n_out), n_add>>
    /\ log = << Event("cb", 1, 2, "cb_out", n_add, <<>>, "cli"),
                Event("run", 1, 0, "run_root", NULL, <<>>, "cli") >>


\* ---------------------------------------------------------------- C25
\* The positions of the log at which the overlay called a callback that
\* returned a negative value.
OverlayRefusals ==
    { k \in 1..Len(log) :
        /\ log[k].ev = "cb" /\ log[k].src = "env"
        /\ CallCb(log[k].name, log[k].val) < 0 }

\* C25: a negative return from a callback that the environment/default
\* overlay invoked aborts parsing at once: nothing is called after it, no
\* token is scanned and no handler runs, and dispatch returns a failure.
C25_OverlayFailureAborts ==
    \A k \in OverlayRefusals :
        /\ k = Len(log)
        /\ pc \in {"ret", "done"}
        /\ pc = "ret" => lrc < 0
        /\ pc = "done" => rc < 0

\* What the overlay does with a refusal: the call goes on as if the
\* callback had accepted the value, and the group of the option is counted.
C25_OverlayIgnoresRefusal ==
    pc = "level" =>
        LET e == Step(Cur)
            made == { k \in 1..Len(CurOpts) :
                        /\ CurOpts[k].cb # ""
                        /\ \/ CurOpts[k].def # NULL
                           \/ /\ CurOpts[k].env # ""
                              /\ getenv(ScenarioSeq[scn].environ, CurOpts[k].env) # NULL }
        IN  /\ e.pc = "scan" /\ e.i = idx
            /\ Len(e.log) = Len(log) + Cardinality(made)

\* The overlay's callback refused FMT=xml, and the handler ran with status 0.
C25_RefusalIgnoredWitness ==
    /\ pc = "done" /\ rc = CARGS_OK
    /\ OverlayRefusals # {}
    /\ Len(log) > 0 /\ LastEvent.ev = "run"


\* ---------------------------------------------------------------- C26
\* The callbacks made so far for the options of group g of node n.
MatchesAt(n, g) ==
    Cardinality({ k \in 1..Len(log) :
        /\ log[k].ev = "cb" /\ log[k].node = n
        /\ ScenarioSeq[scn].tree[n].opts[log[k].opt].group = g })

\* A group policy of node n with an id in ids is violated by the matches
\* made so far.
PolicyViolatedAt(n, ids) ==
    \E k \in 1..Len(ScenarioSeq[scn].tree[n].opts) :
        LET o == ScenarioSeq[scn].tree[n].opts[k]
        IN  /\ o.group \in ids
            /\ \/ o.group_policy = CARGS_GRP_XOR /\ MatchesAt(n, o.group) > 1
               \/ o.group_policy = CARGS_GRP_REQ_ONE /\ MatchesAt(n, o.group) # 1

\* The parent of the current node, 0 at the root.
ParentOfCur ==
    IF \E q \in 1..Len(ScenarioSeq[scn].tree) :
           \E c \in 1..Len(ScenarioSeq[scn].tree[q].subs) :
               ScenarioSeq[scn].tree[q].subs[c] = cmd
    THEN CHOOSE q \in 1..Len(ScenarioSeq[scn].tree) :
           \E c \in 1..Len(ScenarioSeq[scn].tree[q].subs) :
               ScenarioSeq[scn].tree[q].subs[c] = cmd
    ELSE 0

\* The scan of the level has ended and its policies are about to be
\* enforced, one of them (with an id in ids) violated.
ViolatedAtEnforcement(ids) == pc = "enforce" /\ PolicyViolatedAt(cmd, ids)

\* For the groups with an id in ids: a violated policy of the level whose
\* scan has ended makes the call return GroupViolation with nothing more
\* called, also when the next token names a child; no level is entered
\* below a node with a violated policy, and no handler runs at one.
EnforcedBeforeDescent(ids) ==
    /\ ViolatedAtEnforcement(ids) =>
           LET e == RunToEnd(Cur)
           IN  e.rc = CARGS_ERR_GROUP /\ e.log = log /\ e.cmd = cmd
    /\ (pc = "level" /\ ParentOfCur # 0) => ~PolicyViolatedAt(ParentOfCur, ids)
    /\ \A k \in 1..Len(log) :
           log[k].ev = "run" => ~PolicyViolatedAt(log[k].node, ids)

\* The enforcement is entered from the scan of the same level only, calls
\* nothing and returns to the dispatcher, and a level that returns from
\* anywhere else returns a failure or an interception.
EnforcementStep ==
    /\ pc' = "enforce" => pc = "scan" /\ cmd' = cmd /\ log' = log
    /\ pc = "enforce" =>
           /\ pc' = "ret" /\ log' = log /\ cmd' = cmd
           /\ lrc' \in {CARGS_OK, CARGS_ERR_GROUP}
    /\ (pc' = "ret" /\ pc # "enforce") => lrc' \notin {CARGS_OK, CARGS_ERR_GROUP}
    /\ pc' = "level" => pc \in {"entry", "descend"}
    /\ pc = "ret" => pc' \in {"descend", "done"}

\* C26: the group policies of a level are enforced exactly once, when its
\* token scan has ended successfully and before any descent: a violated
\* policy of a parent makes dispatch return GroupViolation even when the
\* next token names a subcommand, and neither the child's overlay nor its
\* callbacks nor any handler run; the enforcement does not run for a level
\* whose scan failed or was intercepted.
C26_EnforcedOnceBeforeDescent ==
    /\ [](EnforcedBeforeDescent(1..(MAXG - 1)))
    /\ [][EnforcementStep]_vars

\* The same for the groups whose policy bit fits the 32-bit masks.
C26_EnforcedBelowGroup32 ==
    /\ [](EnforcedBeforeDescent(1..(MAXG - 2)))
    /\ [][EnforcementStep]_vars

\* A violated policy of the root is about to be enforced and the next token
\* names a child of the root.
C26_Witness ==
    /\ ViolatedAtEnforcement(1..(MAXG - 2))
    /\ i < Len(argv) /\ IsChildToken(argv[i + 1])

\* The policy of group 32 was violated at the root, and the child's overlay
\* and handler ran.
C26_Group32Witness ==
    /\ pc = "done" /\ rc = CARGS_OK /\ cmd = 2
    /\ PolicyViolatedAt(1, {MAXG - 1})
    /\ Len(log) > 0 /\ LastEvent.ev = "run"


\* ---------------------------------------------------------------- C27
\* The leftover tokens argv[idx..argc-1].
LeftoverTokens == SubSeq(argv, idx + 1, Len(argv))

\* Descent has stopped: no token is left, or the next one starts with "-"
\* or names no child of the current node.
DescentStopped ==
    \/ idx >= Len(argv)
    \/ CharAt(argv[idx + 1], 0) = "-"
    \/ ~IsChildToken(argv[idx + 1])

\* The validation is entered when descent has stopped and at no other time;
\* it checks the leftover count against the schema of the node the consumed
\* subcommand names lead to, and nothing else; what follows it is the
\* handler with exactly the tokens that were counted, or the return; and it
\* is not entered again.
ValidatesLeafOnce ==
    /\ pc' = "validate" =>
           /\ pc = "descend" /\ cmd' = cmd /\ idx' = idx
           /\ DescentStopped /\ cmd = WalkPath(1, path)
    /\ pc = "validate" =>
           LET verdict == PositionalVerdict(CurSchema, Len(LeftoverTokens))
           IN  /\ cmd' = cmd /\ idx' = idx
               /\ IF verdict = CARGS_OK THEN pc' = "run" /\ log' = log
                  ELSE pc' = "done" /\ rc' = verdict /\ log' = log
    /\ pc = "run" =>
           /\ pc' = "done"
           /\ ScenarioSeq[scn].tree[cmd].run # "" =>
                  /\ log'[Len(log')].ev = "run"
                  /\ log'[Len(log')].args = LeftoverTokens
    /\ pc' = "run" => pc = "validate"

\* C27: the Positional Validator runs once per dispatch, after the descent
\* has stopped, against the schema of the deepest matched node only (the
\* schemas of the ancestors descended through are not checked), and the
\* count it validates is the number of tokens handed to the handler.
C27_ValidatorOnceAtLeaf ==
    /\ []((pc = "descend" /\ DescentStopped) => Step(Cur).pc = "validate")
    /\ [][ValidatesLeafOnce]_vars

\* C27 witness: below the root the child's schema accepted a count of
\* leftover tokens that the schema of the root rejects, and the child's
\* handler got these tokens.
C27_Witness ==
    /\ pc = "done" /\ rc = CARGS_OK /\ depth > 0
    /\ PositionalVerdict(CurSchema, Len(LeftoverTokens)) = CARGS_OK
    /\ PositionalVerdict(ScenarioSeq[scn].tree[1].pos, Len(LeftoverTokens)) # CARGS_OK
    /\ Len(log) > 0 /\ LastEvent.ev = "run" /\ LastEvent.node = cmd
    /\ LastEvent.args = LeftoverTokens /\ Len(LeftoverTokens) = 2

\* The child's schema rejected a count that the schema of the root accepts.
C27_LeafRejectsWitness ==
    /\ pc = "done" /\ rc = CARGS_ERR_POSITIONAL /\ depth > 0
    /\ PositionalVerdict(ScenarioSeq[scn].tree[1].pos, Len(LeftoverTokens)) = CARGS_OK


\* ---------------------------------------------------------------- C28
\* The characters of the token tok from position q on are None-kind options
\* of the level, not shadowed by a builtin, up to the end of the token or to
\* a Required-kind option.
RECURSIVE Splittable(_, _)
Splittable(tok, q) ==
    \/ q > Len(tok)
    \/ LET k == cargs_find_short(CurOpts, tok[q])
       IN  /\ k # 0 /\ ~Shadowed(NULL, tok[q])
           /\ \/ CurOpts[k].arg = CARGS_ARG_REQUIRED
              \/ CurOpts[k].arg = CARGS_ARG_NONE /\ Splittable(tok, q + 1)

\* The cluster tok from position q on, written as separate tokens: one
\* token per option, and the rest of the cluster behind a Required-kind
\* option as a token of its own.
RECURSIVE ClusterSplit(_, _)
ClusterSplit(tok, q) ==
    IF q > Len(tok) THEN <<>>
    ELSE IF CurOpts[cargs_find_short(CurOpts, tok[q])].arg = CARGS_ARG_NONE
         THEN <<Short(tok[q])>> \o ClusterSplit(tok, q + 1)
    ELSE IF q = Len(tok) THEN <<Short(tok[q])>>
    ELSE <<Short(tok[q]), SubSeq(tok, q + 1, Len(tok))>>

\* The number of options in the cluster tok from position q on.
RECURSIVE ClusterOptions(_, _)
ClusterOptions(tok, q) ==
    IF q > Len(tok) THEN 0
    ELSE IF CurOpts[cargs_find_short(CurOpts, tok[q])].arg = CARGS_ARG_NONE
         THEN 1 + ClusterOptions(tok, q + 1)
    ELSE 1

\* The state after the level parser has dealt with n more options, or has
\* returned before.
RECURSIVE AfterOptions(_, _)
AfterOptions(s, n) ==
    IF n = 0 \/ s.pc # "scan" THEN s ELSE AfterOptions(AfterOption(s), n - 1)

\* The scan is at a short cluster of two or more characters.
AtCluster ==
    /\ pc = "scan" /\ i < Len(argv)
    /\ Len(argv[i + 1]) > 2
    /\ argv[i + 1][1] = "-" /\ argv[i + 1][2] # "-"

\* The callbacks the cluster owes, in the order of its characters.
RECURSIVE ClusterCalls(_, _)
ClusterCalls(tok, q) ==
    IF q > Len(tok) THEN <<>>
    ELSE LET k == cargs_find_short(CurOpts, tok[q])
         IN  IF CurOpts[k].arg = CARGS_ARG_NONE
             THEN <<Event("cb", cmd, k, CurOpts[k].cb, NULL, <<>>, "cli")>>
                      \o ClusterCalls(tok, q + 1)
             ELSE <<Event("cb", cmd, k, CurOpts[k].cb,
                          IF q < Len(tok) THEN SubSeq(tok, q + 1, Len(tok))
                          ELSE IF i + 1 < Len(argv) THEN argv[i + 2] ELSE NULL,
                          <<>>, "cli")>>

\* s is a prefix of t.
IsPrefix(s, t) == Len(s) <= Len(t) /\ SubSeq(t, 1, Len(s)) = s

\* The cluster at the scan position and its separate-token form end in the
\* same parser state (callbacks in the order of the characters, group
\* counts, status, unconsumed tokens) and the calls return the same.
ClusterAsSeparateTokens ==
    LET tok == argv[i + 1]
        whole == AfterOption(Cur)
        apart == AfterOptions(WithForm(ClusterSplit(tok, 2), 1),
                              ClusterOptions(tok, 2))
        calls == SubSeq(whole.log, Len(log) + 1, Len(whole.log))
    IN  /\ apart.log = whole.log
        /\ apart.counts = whole.counts
        /\ apart.pc = whole.pc /\ apart.lrc = whole.lrc
        /\ Unconsumed(apart) = Unconsumed(whole)
        /\ Outcome(RunToEnd(apart)) = Outcome(RunToEnd(whole))
        /\ IsPrefix(calls, ClusterCalls(tok, 2))
        /\ whole.pc = "scan" => calls = ClusterCalls(tok, 2)

\* The cluster scan is at a value-taking option that is followed by more
\* characters in its token.
AtValueInCluster(k) ==
    /\ pc = "cluster" /\ p < Len(argv[cl + 1]) - 1
    /\ cargs_find_short(CurOpts, argv[cl + 1][p + 1]) = k
    /\ ~Shadowed(NULL, argv[cl + 1][p + 1])
    /\ CurOpts[k].arg \in {CARGS_ARG_REQUIRED, CARGS_ARG_OPTIONAL}

\* The rest of the token is the value the callback of option k gets, and
\* the cluster is used up.
TakesRestOfToken(k) ==
    LET e == Step(Cur)
        rest == SubSeq(argv[cl + 1], p + 2, Len(argv[cl + 1]))
    IN  /\ e.log = Append(log, Event("cb", cmd, k, CurOpts[k].cb, rest, <<>>, "cli"))
        /\ e.i = i
        /\ e.pc = "cluster" => Step(e).pc = "scan" /\ Step(e).log = e.log

\* C28: a short cluster is scanned left to right and every recognized
\* character calls its option's callback once, in order: a cluster of
\* None-kind options gives the callbacks, group counts and status of the
\* same options as separate tokens, and a value-taking option inside a
\* cluster takes the rest of the token as its attached value (-Vj10 equals
\* -V -j 10).
C28_ClusterEqualsSeparateTokens ==
    /\ (AtCluster /\ Splittable(argv[i + 1], 2)) => ClusterAsSeparateTokens
    /\ \A k \in 1..Len(CurOpts) : AtValueInCluster(k) => TakesRestOfToken(k)

\* C28 witness: the scan is at -abc, whose three flags are in groups.
C28_Witness ==
    /\ AtCluster /\ argv[i + 1] = <<"-", "a", "b", "c">>
    /\ Splittable(argv[i + 1], 2)
    /\ AfterOption(Cur).counts[1] = 2 /\ AfterOption(Cur).counts[2] = 1

\* The scan is at -cj10, a flag and a Required-kind option with its value.
C28_AttachedWitness ==
    /\ AtCluster /\ argv[i + 1] = <<"-", "c", "j", "1", "0">>
    /\ ClusterSplit(argv[i + 1], 2) = <<Short("c"), Short("j"), v_10>>

\* The cluster scan is at the Optional-kind l of -cl-x.
C28_OptionalWitness ==
    /\ pc = "cluster" /\ argv[cl + 1] = <<"-", "c", "l", "-", "x">>
    /\ AtValueInCluster(5)


\* ---------------------------------------------------------------- C29
\* The scan is at a short-form token and the help builtin is enabled.
AtShortToken ==
    /\ pc = "scan" /\ i < Len(argv)
    /\ Len(argv[i + 1]) >= 2
    /\ argv[i + 1][1] = "-" /\ argv[i + 1][2] # "-"
    /\ ScenarioSeq[scn].env.auto_help

\* The character at position q of the token tok is "h", and every character
\* before it is an option of the level with a kind in kinds that no builtin
\* shadows.
HelpBehind(tok, q, kinds) ==
    /\ q \in 2..Len(tok) /\ tok[q] = "h"
    /\ \A m \in 2..(q - 1) :
           /\ cargs_find_short(CurOpts, tok[m]) # 0
           /\ ~Shadowed(NULL, tok[m])
           /\ CurOpts[cargs_find_short(CurOpts, tok[m])].arg \in kinds

\* The callbacks of the None-kind options at the positions from..to of tok.
RECURSIVE FlagCalls(_, _, _)
FlagCalls(tok, from, to) ==
    IF from > to THEN <<>>
    ELSE LET k == cargs_find_short(CurOpts, tok[from])
         IN  <<Event("cb", cmd, k, CurOpts[k].cb, NULL, <<>>, "cli")>>
                 \o FlagCalls(tok, from + 1, to)

\* The token at the scan position ends the call with the help of the
\* current node, after the callbacks of the options before position q and
\* nothing else: the intercepted outcome.
HelpInterceptsAt(q) ==
    LET e == AfterOption(Cur)
        whole == RunToEnd(Cur)
    IN  /\ e.pc = "ret" /\ e.lrc = CARGS_DONE
        /\ e.log = log \o FlagCalls(argv[i + 1], 2, q - 1)
                       \o <<Event("help", cmd, 0, "", NULL, <<>>, "cli")>>
        /\ whole.rc = CARGS_OK /\ whole.log = e.log /\ whole.cmd = cmd

AllKinds == {CARGS_ARG_NONE, CARGS_ARG_REQUIRED, CARGS_ARG_OPTIONAL}

\* C29 as stated: with auto-help enabled, a short-form token with "h" at a
\* position behind characters that are all recognized options of the level
\* yields the intercepted outcome when the scan reaches it, whatever the
\* kinds of these options.
C29_HelpAnywhereAsStated ==
    AtShortToken =>
        \A q \in 2..Len(argv[i + 1]) :
            HelpBehind(argv[i + 1], q, AllKinds) => HelpInterceptsAt(q)

\* The first value-taking option of the token at the scan position is at
\* position m, before an "h" at position q, behind None-kind options only.
ValueOptionBefore(m, q) ==
    /\ m \in 2..(q - 1)
    /\ HelpBehind(argv[i + 1], q, AllKinds)
    /\ \A n \in 2..(m - 1) :
           CurOpts[cargs_find_short(CurOpts, argv[i + 1][n])].arg = CARGS_ARG_NONE
    /\ CurOpts[cargs_find_short(CurOpts, argv[i + 1][m])].arg # CARGS_ARG_NONE

\* The option at position m gets the rest of the token, the "h" in it, as
\* its value, and no help is rendered for the token.
HelpSwallowedAt(m) ==
    LET e == AfterOption(Cur)
        tok == argv[i + 1]
        k == cargs_find_short(CurOpts, tok[m])
    IN  /\ e.log = log \o FlagCalls(tok, 2, m - 1)
                       \o <<Event("cb", cmd, k, CurOpts[k].cb,
                                  SubSeq(tok, m + 1, Len(tok)), <<>>, "cli")>>
        /\ e.lrc # CARGS_DONE

\* C29 amended: the "h" yields the intercepted outcome when every character
\* before it is a None-kind option of the level; when a Required-kind or
\* Optional-kind option comes before it, that option takes the rest of the
\* token, the "h" included, as its attached value and no help is rendered.
C29_HelpBehindFlags ==
    AtShortToken =>
        \A q \in 2..Len(argv[i + 1]) :
            /\ HelpBehind(argv[i + 1], q, {CARGS_ARG_NONE}) => HelpInterceptsAt(q)
            /\ \A m \in 2..(q - 1) : ValueOptionBefore(m, q) => HelpSwallowedAt(m)

\* C29 witness: the scan is at -VVhZ, an "h" behind two flags and before an
\* undeclared character.
C29_Witness ==
    /\ AtShortToken /\ argv[i + 1] = <<"-", "V", "V", "h", "Z">>
    /\ HelpBehind(argv[i + 1], 4, {CARGS_ARG_NONE})

\* The scan is at -jh: the Required-kind j comes before the "h".
C29_SwallowedWitness ==
    /\ AtShortToken /\ argv[i + 1] = <<"-", "j", "h">>
    /\ ValueOptionBefore(2, 3)


\* ---------------------------------------------------------------- C30
\* The position of the first "=" of the token tok, 0 when it has none.
FirstEquals(tok) ==
    IF \E q \in 1..Len(tok) : tok[q] = "="
    THEN CHOOSE q \in 1..Len(tok) :
             tok[q] = "=" /\ \A m \in 1..(q - 1) : tok[m] # "="
    ELSE 0

\* The scan is at a long token with a "=" whose name, what stands between
\* "--" and the first "=", is the long name of option k of the level, which
\* no builtin shadows.
AtLongWithValue(k) ==
    /\ pc = "scan" /\ i < Len(argv)
    /\ Len(argv[i + 1]) > 2
    /\ argv[i + 1][1] = "-" /\ argv[i + 1][2] = "-"
    /\ FirstEquals(argv[i + 1]) > 2
    /\ CurOpts[k].long_name = SubSeq(argv[i + 1], 3, FirstEquals(argv[i + 1]) - 1)
    /\ cargs_find_long(CurOpts, CurOpts[k].long_name) = k
    /\ ~Shadowed(CurOpts[k].long_name, "")

\* Everything behind the first "=" of the token at the scan position.
ValueBehindEquals ==
    SubSeq(argv[i + 1], FirstEquals(argv[i + 1]) + 1, Len(argv[i + 1]))

\* The level parser fails with BadFormat without calling anything, and so
\* does the call.
FailsBadFormat ==
    LET e == Step(Cur)
    IN  /\ e.pc = "ret" /\ e.lrc = CARGS_ERR_BAD_FORMAT /\ e.log = log
        /\ RunToEnd(Cur).rc = CARGS_ERR_BAD_FORMAT /\ RunToEnd(Cur).log = log

\* The callback of option k is called with what stands behind the first "="
\* and the token is used up.
GetsValueBehindEquals(k) ==
    LET e == Step(Cur)
        r == CallCb(CurOpts[k].cb, ValueBehindEquals)
    IN  /\ e.log = Append(log, Event("cb", cmd, k, CurOpts[k].cb,
                                     ValueBehindEquals, <<>>, "cli"))
        /\ IF r < 0 THEN e.pc = "ret" /\ e.lrc = r
           ELSE e.pc = "scan" /\ e.i = i + 1

\* C30 as stated: a None-kind long option given with an attached "=" value,
\* an empty one included, fails with BadFormat and its callback is not
\* invoked; a long token is split at its first "=", and a value-taking
\* option gets everything behind it (possibly empty, possibly with further
\* "=") as its attached value.
C30_SplitAtFirstEqualsAsStated ==
    \A k \in 1..Len(CurOpts) :
        AtLongWithValue(k) =>
            IF CurOpts[k].arg = CARGS_ARG_NONE THEN FailsBadFormat
            ELSE GetsValueBehindEquals(k)

\* C30 amended: the same, except that a token whose name has 96 characters
\* or more fails with BadFormat whatever the kind of the option.
C30_SplitAtFirstEquals ==
    \A k \in 1..Len(CurOpts) :
        AtLongWithValue(k) =>
            IF \/ CurOpts[k].arg = CARGS_ARG_NONE
               \/ Len(CurOpts[k].long_name) >= NameBufSize
            THEN FailsBadFormat
            ELSE GetsValueBehindEquals(k)

\* C30 witness: the scan is at --verbose= of the None-kind verbose.
C30_Witness ==
    \E k \in 1..Len(CurOpts) :
        /\ AtLongWithValue(k) /\ CurOpts[k].arg = CARGS_ARG_NONE
        /\ argv[i + 1] = LongEq(n_verbose, <<>>)

\* The Required-kind out got "a=b", and the handler ran.
C30_SecondEqualsWitness ==
    /\ pc = "done" /\ rc = CARGS_OK
    /\ argv = <<Prog, LongEq(n_out, <<"a", "=", "b">>)>>
    /\ log[1].ev = "cb" /\ log[1].val = <<"a", "=", "b">>

\* The scan is at --limit= of the Optional-kind limit, an empty value.
C30_EmptyValueWitness ==
    \E k \in 1..Len(CurOpts) :
        /\ AtLongWithValue(k) /\ CurOpts[k].arg = CARGS_ARG_OPTIONAL
        /\ argv[i + 1] = LongEq(n_limit, <<>>)
        /\ ValueBehindEquals = <<>>

\* The scan is at the Required-kind option whose name has 96 characters,
\* given with a value.
C30_WideNameWitness ==
    \E k \in 1..Len(CurOpts) :
        /\ AtLongWithValue(k) /\ CurOpts[k].arg = CARGS_ARG_REQUIRED
        /\ Len(CurOpts[k].long_name) >= NameBufSize


\* ---------------------------------------------------------------- C31
\* The token tok is a long option token.
IsLongToken(tok) == Len(tok) > 2 /\ tok[1] = "-" /\ tok[2] = "-"

\* The scan is at a long token with this name, with or without a value.
ScansLong(name) ==
    IsLongToken(ScannedToken) /\ LongNameOf(ScannedToken) = name

\* The step taken from the current state prints what and nothing else, and
\* makes the level parser return CARGS_DONE.
BuiltinIntercepted(what) ==
    LET e == Step(Cur)
    IN  /\ e.pc = "ret" /\ e.lrc = CARGS_DONE
        /\ e.log = Append(log, Event(what, cmd, 0, "", NULL, <<>>, "cli"))

\* The builtins that are enabled at the current level.
HelpEnabled == ScenarioSeq[scn].env.auto_help
VersionEnabled ==
    /\ depth = 0 /\ ScenarioSeq[scn].env.auto_version
    /\ ScenarioSeq[scn].env.version # NULL
AuthorEnabled ==
    /\ depth = 0 /\ ScenarioSeq[scn].env.auto_author
    /\ ScenarioSeq[scn].env.author # NULL

\* The level of the node n: 0 for the root.
IsRoot(n) == n = 1

\* A builtin that is enabled at node n takes every name of the option o.
AllNamesTaken(n, o) ==
    LET env == ScenarioSeq[scn].env
        taken_long ==
            \/ env.auto_help /\ o.long_name = n_help
            \/ IsRoot(n) /\ env.auto_version /\ env.version # NULL
                  /\ o.long_name = n_version
            \/ IsRoot(n) /\ env.auto_author /\ env.author # NULL
                  /\ o.long_name = n_author
        taken_short ==
            \/ env.auto_help /\ o.short_name = "h"
            \/ IsRoot(n) /\ env.auto_version /\ env.version # NULL
                  /\ o.short_name = "v"
    IN  /\ o.long_name # NULL \/ o.short_name # ""
        /\ o.long_name = NULL \/ taken_long
        /\ o.short_name = "" \/ taken_short

\* C31: the builtins are recognized before the level's own options: with
\* auto-help enabled --help and the character h are intercepted at every
\* level, and at the root with the builtin enabled and its string set so
\* are --version, -v and --author; an option of the level that has these
\* names is not matched from the command line.
C31_BuiltinsBeforeOptions ==
    /\ (HelpEnabled /\ (ScansLong(n_help) \/ ScannedChar = "h"))
           => BuiltinIntercepted("help")
    /\ (VersionEnabled /\ ~(HelpEnabled /\ ScannedChar = "h")
          /\ (ScansLong(n_version) \/ ScannedChar = "v"))
           => BuiltinIntercepted("version")
    /\ (AuthorEnabled /\ ScansLong(n_author)) => BuiltinIntercepted("author")
    /\ \A k \in 1..Len(log) :
           (log[k].ev = "cb" /\ log[k].src = "cli")
               => ~AllNamesTaken(log[k].node, OptionOf(log[k]))

\* C31 witness: the scan is at --help of a level that declares an option
\* named help, auto-help enabled.
C31_Witness ==
    /\ HelpEnabled /\ ScansLong(n_help)
    /\ cargs_find_long(CurOpts, n_help) # 0

\* The cluster scan is at the v of the root, which declares an option v,
\* the version builtin enabled.
C31_VersionWitness ==
    /\ VersionEnabled /\ ScannedChar = "v"
    /\ cargs_find_short(CurOpts, "v") # 0

\* The scan is at --author of the root, which declares an option author.
C31_AuthorWitness ==
    /\ AuthorEnabled /\ ScansLong(n_author)
    /\ cargs_find_long(CurOpts, n_author) # 0

\* With the builtins disabled the option named help was matched.
C31_DisabledWitness ==
    /\ ~ScenarioSeq[scn].env.auto_help
    /\ \E k \in 1..Len(log) :
           log[k].ev = "cb" /\ OptionOf(log[k]).long_name = n_help


\* ------------------------------------------------------------------- C32
\* The group ids of the current level whose policy is kept in the masks.
BelowGroup32 ==
    \A k \in 1..Len(CurOpts) : CurOpts[k].group < MaskBits

\* C32: from the entry of a level to its enforcement the counter of every
\* group id is the number of matches made at that level in this call: the
\* matches of the same id at the parent level and the matches of an earlier
\* cargs_dispatch call are not in it.  So a level whose own matches satisfy
\* its policies passes its enforcement whatever was matched before.
C32_CountersFreshAtEveryLevel ==
    /\ pc \in {"scan", "cluster", "enforce"}
           => \A g \in 1..(MAXG - 1) : counts[g] = MatchesAt(cmd, g)
    /\ ( /\ Enforced /\ BelowGroup32
         /\ \A g \in GroupsOf(CARGS_GRP_XOR) : MatchesAt(cmd, g) <= 1
         /\ \A g \in GroupsOf(CARGS_GRP_REQ_ONE) : MatchesAt(cmd, g) = 1 )
           => lrc = CARGS_OK

\* In a later call the child passes its enforcement with one match of group
\* 1, after one match of group 1 at the root.
C32_Witness ==
    /\ conv.phase = "second" /\ cmd = 2 /\ Enforced /\ lrc = CARGS_OK
    /\ MatchesAt(1, 1) = 1 /\ MatchesAt(2, 1) = 1

\* A later call is entered while the counter of group 1 holds the matches of
\* the call before.
C32_StaleCountersWitness ==
    /\ conv.phase = "second" /\ pc = "level" /\ cmd = 1 /\ counts[1] > 0

\* The first call ended with GroupViolation in group 1, the later call
\* matches the group once and its handler runs.
C32_AfterViolationWitness ==
    /\ conv.phase = "second" /\ pc = "level" /\ counts[1] = 2
    /\ RunToEnd(Cur).rc = CARGS_OK /\ MatchesAt(1, 1) = 0
    /\ Len(argv) > 1 /\ argv[2] = Short("a")


\* ------------------------------------------------------------------- C33
\* The node reached by the first d recorded subcommand tokens.
VisitedNode(d) == WalkPath(1, SubSeq(path, 1, d))

\* The deepest level whose parse has begun (-1 before the root's).
EnteredDepth == IF pc = "level" THEN Len(path) - 1 ELSE Len(path)

EnteredNodes == { VisitedNode(d) : d \in 0..EnteredDepth }

\* The level at which the event e was made.
LevelOf(e) == CHOOSE d \in 0..EnteredDepth : VisitedNode(d) = e.node

\* The overlay callbacks made so far at node n.
OverlayLog(n) ==
    LET IsOverlayAt(e) == e.ev = "cb" /\ e.node = n /\ e.src = "env"
    IN  SelectSeq(log, IsOverlayAt)

\* What was called so far is laid out level by level.
EventsInOrder ==
    /\ (pc = "entry" \/ Len(argv) = 0) => log = <<>>
    /\ (pc # "entry" /\ Len(argv) > 0) =>
        /\ cmd = VisitedNode(Len(path))
        /\ \A k \in 1..Len(log) : log[k].node \in EnteredNodes
        /\ \A k \in 1..Len(log) : \A m \in (k + 1)..Len(log) :
               /\ LevelOf(log[k]) <= LevelOf(log[m])
               /\ (log[k].node = log[m].node /\ log[k].src = "cli")
                      => log[m].src = "cli"
        /\ \A n \in EnteredNodes : OverlayLog(n) = OverlayEvents(n, 1)
        /\ \A k \in 1..Len(log) :
               log[k].ev # "cb" =>
                   /\ k = Len(log) /\ log[k].node = cmd
                   /\ IF log[k].ev = "run" \/ ~Intercepted
                      THEN pc = "done" ELSE pc \in {"ret", "done"}
        /\ Cardinality(RunEvents) <= 1

\* The events a step adds to what was called.
Added == SubSeq(log', Len(log) + 1, Len(log'))

\* Each step keeps the order of one dispatch: the overlay at the entry of a
\* level, the callbacks of the tokens while the level is scanned from left
\* to right, the enforcement after the scan, the next level or the
\* validation only after a level that returned CARGS_OK, the handler only
\* after the validation.
StepsInOrder ==
    /\ LogOnlyGrows
    /\ \A k \in 1..Len(Added) :
           /\ Added[k].src = "env" => pc = "level"
           /\ (Added[k].ev = "cb" /\ Added[k].src = "cli") =>
                  /\ pc \in {"scan", "cluster"} /\ Added[k].node = cmd
                  /\ Len(Added) = 1
           /\ Added[k].ev = "run" => pc = "run" /\ Len(Added) = 1
    /\ (pc \in {"scan", "cluster"} /\ pc' \in {"scan", "cluster", "enforce"}) =>
           \/ i' > i
           \/ i' = i /\ pc = "scan" /\ pc' = "enforce"
           \/ i' = i /\ pc = "cluster"
                     /\ (pc' = "cluster" => p' > p /\ cl' = cl)
    /\ pc = "enforce" => log' = log /\ pc' = "ret"
    /\ pc' = "descend" => pc = "ret" /\ lrc = CARGS_OK
    /\ pc' = "level" => pc \in {"entry", "descend"}
    /\ pc' = "validate" => pc = "descend" /\ cmd' = cmd
    /\ pc' = "run" => pc = "validate" /\ log' = log
    /\ cmd' # cmd => pc = "descend" /\ pc' = "level"

\* C33: in one dispatch the callbacks are made level by level from the root
\* to the deepest matched node: at each level first its overlay callbacks in
\* declaration order, then the callbacks of its command-line options in
\* token order, then its enforcement; after the last level the positional
\* validation, and last at most one handler.  The overlay of each visited
\* level is applied exactly once, and no option of a node off the matched
\* path gets a callback.
C33_EventsInDispatchOrder ==
    /\ []EventsInOrder
    /\ [][StepsInOrder]_vars

\* A handler ran after overlay and command-line callbacks at two levels.
C33_Witness ==
    /\ pc = "done" /\ Len(path) = 1 /\ Len(log) > 0 /\ LastEvent.ev = "run"
    /\ \E a, b, c, d \in 1..Len(log) :
           /\ a < b /\ b < c /\ c < d
           /\ log[a].node = 1 /\ log[a].src = "env"
           /\ log[b].node = 1 /\ log[b].src = "cli" /\ log[b].ev = "cb"
           /\ log[c].node = cmd /\ log[c].src = "env"
           /\ log[d].node = cmd /\ log[d].src = "cli" /\ log[d].ev = "cb"

\* A sibling of the matched child declares options, and the handler of the
\* matched child ran.
C33_SiblingWitness ==
    /\ pc = "done" /\ Len(path) = 1 /\ Len(log) > 0 /\ LastEvent.ev = "run"
    /\ \E n \in 2..Len(ScenarioSeq[scn].tree) :
           /\ n # cmd /\ Len(ScenarioSeq[scn].tree[n].opts) > 0
           /\ \E c \in 1..Len(ScenarioSeq[scn].tree[1].subs) :
                  ScenarioSeq[scn].tree[1].subs[c] = n


\* ------------------------------------------------------------------- C34
\* A step moves the token index of cargs_dispatch (idx) and the one of the
\* level parser (i) forward only: a level starts at the index of the
\* dispatch and hands its own index back; a turn of the level scan that goes
\* on with the scan, and a descent, move on by at least one token.
ForwardStep ==
    /\ idx' >= idx
    /\ pc = "level" => i' = idx
    /\ pc \in {"scan", "cluster", "enforce"} => i' >= i
    /\ (pc = "scan" /\ pc' \in {"scan", "cluster"}) => i' > i
    /\ (pc = "scan" /\ pc' = "enforce" /\ i' = i) =>
           (i >= Len(argv) \/ CharAt(argv[i + 1], 0) # "-")
    /\ (pc = "enforce" /\ lrc' = CARGS_OK) => idx' = i
    /\ (pc = "descend" /\ pc' = "level") => idx' = idx + 1
    /\ pc \in {"ret", "validate", "run"} => idx' = idx

\* The token a step looks at first is not behind the index: the scan reads
\* argv[i], the descent argv[idx], and a cluster is the token the scan has
\* just stepped over.
ExaminedAtIndex ==
    /\ pc = "cluster" => cl < Len(argv) /\ (cl = i - 1 \/ cl = i - 2)
    /\ pc \in {"scan", "cluster", "enforce"} => idx <= i /\ i <= Len(argv)
    /\ Len(argv) > 0 => idx <= Len(argv)

\* C34: the parse is one forward pass: the token index never decreases,
\* every turn of the level scan that goes on and every descent advance it by
\* at least one token, a step reads at the index and not before it, and the
\* call comes to its end.
C34_SingleForwardPass ==
    /\ [](ExaminedAtIndex)
    /\ [][ForwardStep]_vars
    /\ <>(pc = "done")

\* The call has ended after a scan of two tokens at the root and a descent.
C34_Witness ==
    /\ pc = "done" /\ Len(argv) = 4 /\ idx = 3 /\ cmd # 1
    /\ LastEvent.ev = "run"


\* ------------------------------------------------------------------- C35
\* What a call of cargs_dispatch with the tree, environment and argv of the
\* current call does when nothing was called before it.
FreshCall == Outcome(RunToEnd(Start(scn, argv)))

\* C35: a call of cargs_dispatch, also one made after another call with any
\* argv, ends with the status, the sequence of callbacks with their values
\* and the handler with its leftover tokens that the same tree, argv and
\* environment give when nothing was called before.
C35_SameInputsSameOutcome ==
    pc = "done" => Outcome(Cur) = FreshCall

\* The second call ran a handler behind a child although the call before it
\* had another argv.
C35_Witness ==
    /\ conv.phase = "second" /\ pc = "done" /\ Len(argv) = 4
    /\ Len(log) > 1 /\ LastEvent.ev = "run" /\ LastEvent.node = 2

\* A call that succeeds is entered after a call that failed with
\* GroupViolation.
C35_AfterFailureWitness ==
    /\ conv.phase = "second" /\ pc = "entry"
    /\ rc = CARGS_ERR_GROUP /\ lrc = CARGS_ERR_GROUP
    /\ FreshCall.rc = CARGS_OK /\ Len(FreshCall.log) > 1


\* ------------------------------------------------------------------- C36
\* The smaller of two numbers.
Least(a, b) == IF a < b THEN a ELSE b

\* On the chain the node k is k - 1 levels below the root.  The path holds
\* the subcommand tokens of the first PathCap descents and no more.
PathWithinArray ==
    /\ Len(path) <= PathCap /\ depth = Len(path)
    /\ depth = Least(cmd - 1, PathCap)
    /\ \A k \in 1..Len(path) : path[k] = argv[k + 1]
    /\ \A k \in 1..Len(log) :
           log[k].ev \in {"version", "author"} => log[k].node = 1

\* A descent enters the child at every depth; the options, the positional
\* schema and the handler are those of the node that was entered; below the
\* root the names of the version and author builtins are looked up among
\* the options of the node.
DeepStep ==
    /\ ( /\ pc = "descend" /\ idx < Len(argv) /\ cmd <= MaxChain
         /\ argv[idx + 1] = n_add )
           => /\ pc' = "level" /\ cmd' = cmd + 1 /\ idx' = idx + 1
              /\ depth' = IF depth < PathCap THEN depth + 1 ELSE depth
    /\ (pc = "scan" /\ i < Len(argv) /\ argv[i + 1] = Long(n_version)) =>
           IF cmd = 1
           THEN log' = Append(log, Event("version", 1, 0, "", NULL, <<>>, "cli"))
           ELSE log' = Append(log, Event("cb", cmd, 2, "cb_json", NULL, <<>>, "cli"))
    /\ (pc = "scan" /\ i < Len(argv) /\ argv[i + 1] = Long(n_author)) =>
           IF cmd = 1
           THEN log' = Append(log, Event("author", 1, 0, "", NULL, <<>>, "cli"))
           ELSE log' = log /\ lrc' = CARGS_ERR_UNKNOWN
    /\ (pc = "cluster" /\ argv[cl + 1] = Short("V") /\ p = 1) =>
           log' = Append(log, Event("cb", cmd, 1, "cb_verbose", NULL, <<>>, "cli"))
    /\ pc = "validate" =>
           IF cmd > PathCap + 1 /\ Len(argv) - idx # 1
           THEN pc' = "done" /\ rc' < 0
           ELSE pc' = "run"
    /\ pc = "run" =>
           log' = Append(log, Event("run", cmd, 0, ScenarioSeq[scn].tree[cmd].run,
                                    NULL, SubSeq(argv, idx + 1, Len(argv)), "cli"))

\* C36: the path of matched subcommand tokens never holds more than 16
\* entries; a descent deeper than 16 levels still enters the child and
\* parses its options, its positional schema and its handler; the version
\* and author builtins stay disabled at every level below the root.
C36_PathNeverOverflows ==
    /\ []PathWithinArray
    /\ [][DeepStep]_vars

\* The handler of the node 17 levels below the root ran with one positional
\* after a callback of that node; the path holds 16 tokens.
C36_Witness ==
    /\ pc = "done" /\ cmd = PathCap + 2 /\ Len(path) = PathCap
    /\ Len(log) = 2 /\ log[1].ev = "cb" /\ log[1].node = cmd
    /\ log[2].ev = "run" /\ log[2].node = cmd /\ log[2].args = << <<"x">> >>

\* 17 levels below the root --version calls the option of the node.
C36_VersionWitness ==
    /\ cmd = PathCap + 2 /\ Len(log) > 0
    /\ LastEvent.name = "cb_json" /\ LastEvent.node = cmd

\* 17 levels below the root the schema of the node rejects the leftover.
C36_SchemaWitness ==
    /\ pc = "done" /\ cmd = PathCap + 2 /\ rc < 0 /\ idx = Len(argv)
    /\ lrc = CARGS_OK


\* ------------------------------------------------------------------- C37
\* After `int i = 1` the token index of cargs_dispatch (idx) and the one of
\* the level parser (i) are between 1 and argc.
IndexInRange ==
    (pc # "entry" /\ Len(argv) > 0) =>
        /\ 1 <= idx /\ idx <= Len(argv)
        /\ pc # "level" => (1 <= i /\ i <= Len(argv))
        /\ pc \in {"scan", "cluster", "enforce"} => idx <= i
        /\ pc = "cluster" => (1 <= cl /\ cl < Len(argv))

\* The value of the callback a step has made, NULL when it made none from
\* the command line.
CalledWith ==
    IF Len(log') = Len(log) + 1 /\ log'[Len(log')].ev = "cb"
    THEN log'[Len(log')].val ELSE NULL

\* A step that has read a token has read it below argc: the scan that goes
\* on has read argv[i]; a step that took the next token as the value of an
\* option has read it at i + 1 (long option) or at i (cluster) and handed
\* over that token; a descent has read argv[idx]; the handler gets the count
\* argc - idx >= 0 and exactly argv[idx..argc-1].
ReadsBelowArgc ==
    /\ (pc = "scan" /\ pc' # "enforce") => i < Len(argv)
    /\ (pc = "scan" /\ i' = i + 2) =>
           i + 1 < Len(argv) /\ CalledWith = argv[i + 2]
    /\ (pc = "cluster" /\ i' = i + 1) =>
           i < Len(argv) /\ CalledWith = argv[i + 1]
    /\ (pc = "descend" /\ pc' = "level") =>
           /\ idx < Len(argv)
           /\ IsChildToken(argv[idx + 1])
    /\ pc = "validate" => Len(argv) - idx >= 0
    /\ pc = "run" =>
           /\ Len(argv) - idx >= 0
           /\ \A k \in 1..Len(log') :
                  log'[k].ev = "run" =>
                      /\ Len(log'[k].args) = Len(argv) - idx
                      /\ \A m \in 1..Len(log'[k].args) :
                             log'[k].args[m] = argv[idx + m]

\* C37: the token index is between 1 and argc in every state of the call,
\* every token that is read (the current token, a separated value, the
\* lookahead) is at an index below argc, and the handler gets the count
\* argc - i >= 0 with exactly the tokens argv[i..argc-1] in their order.
C37_IndexWithinArgv ==
    /\ []IndexInRange
    /\ [][ReadsBelowArgc]_vars

\* The last token was taken as the value of a long option and the handler
\* got no token.
C37_Witness ==
    /\ pc = "done" /\ Len(argv) = 3 /\ idx = 3 /\ Len(log) = 2
    /\ log[1].ev = "cb" /\ log[1].val = argv[3] /\ argv[2][2] = "-"
    /\ log[2].ev = "run" /\ log[2].args = <<>>

\* An option of Optional kind is the last token: there is no token to look
\* ahead at.
C37_NoLookaheadWitness ==
    /\ pc = "scan" /\ Len(argv) > 1 /\ i = Len(argv) - 1
    /\ ScenarioSeq[scn].tree = BasicTree /\ cmd = 1
    /\ argv[i + 1] = Long(n_limit)

\* The handler got two tokens behind two consumed ones.
C37_LeftoverWitness ==
    /\ pc = "done" /\ Len(argv) = 5 /\ idx = 3
    /\ LastEvent.ev = "run" /\ Len(LastEvent.args) = 2


\* ------------------------------------------------------------------- C38
LoneDash == <<"-">>

\* The level scan is at a token that is exactly "-".
AtLoneDash == pc = "scan" /\ i < Len(argv) /\ argv[i + 1] = LoneDash

\* The current state with the token at the scan index taken out of argv.
WithoutScannedToken ==
    [Cur EXCEPT !.argv = SubSeq(argv, 1, i) \o SubSeq(argv, i + 2, Len(argv))]

\* The scan of "-" is the scan of an empty cluster: two steps later the scan
\* is at the next token, with nothing called and no status set, and the
\* call ends as it would without the token.
DashIsEmptyCluster ==
    AtLoneDash =>
        LET t == Step(Step(Cur))
        IN  /\ Step(Cur).pc = "cluster" /\ Step(Cur).log = log
            /\ t.pc = "scan" /\ t.i = i + 1 /\ t.log = log
            /\ t.lrc = lrc /\ t.counts = counts /\ t.cmd = cmd
            /\ Outcome(RunToEnd(Cur)) = Outcome(RunToEnd(WithoutScannedToken))

\* A handler whose first token is "-" was called behind a "--".
DashOnlyBehindDashDash ==
    \A k \in 1..Len(log) :
        (log[k].ev = "run" /\ Len(log[k].args) > 0 /\ log[k].args[1] = LoneDash)
            => dashdash > 0

\* C38: a token that is exactly "-" met by the option scan is consumed as an
\* empty short cluster: no callback, no error, the scan goes on with the
\* next token, and the "-" is not handed to the handler; it reaches the
\* handler only behind "--" or behind the first positional.
C38_LoneDashIsDropped ==
    DashIsEmptyCluster /\ DashOnlyBehindDashDash

\* The handler ran with the positional behind a "-" that was dropped.
C38_Witness ==
    /\ pc = "done" /\ Len(argv) = 3 /\ argv[2] = LoneDash
    /\ Len(log) > 0 /\ LastEvent.ev = "run" /\ LastEvent.args = << <<"x">> >>

\* The subcommand behind a dropped "-" was entered.
C38_DescentWitness ==
    /\ pc = "done" /\ Len(argv) = 3 /\ argv[2] = LoneDash /\ cmd = 2
    /\ Len(log) > 0 /\ LastEvent.ev = "run" /\ LastEvent.args = <<>>

\* Behind a positional and behind "--" the handler gets the "-".
C38_PositionalWitness ==
    /\ pc = "done" /\ Len(log) > 0 /\ LastEvent.ev = "run"
    /\ \/ LastEvent.args = << <<"x">>, LoneDash >> /\ dashdash = 0
       \/ LastEvent.args = << LoneDash >> /\ dashdash > 0

\* A "-" behind a short option of Required kind is its value.
C38_ValueWitness ==
    /\ Len(log) > 0 /\ LastEvent.ev = "cb" /\ LastEvent.val = LoneDash


\* ------------------------------------------------------------------- C39
\* C39: cargs_read_size reads no character beyond the terminating NUL of
\* its input, for every input, also for one that ends in a single-letter
\* unit directly behind the number.
C39_NeverReadsBeyondNul ==
    SizeReturned => ~conv.res.beyond

\* What follows the number and the blanks behind it.
BehindNumber == SizeArg.unit \o SizeArg.tail

\* The byte behind the terminator is read exactly when one character that
\* is no blank follows the number and ends the string; what the call
\* returns and stores does not depend on that byte.
C39_ReadsBeyondBehindOneCharacter ==
    SizeReturned =>
        /\ conv.res.beyond <=>
               (Len(BehindNumber) = 1 /\ ~IsBlank(BehindNumber[1]))
        /\ \A m \in SizeMems :
               LET r == cargs_read_size(conv.str, conv.prefer_iec,
                                        [conv.mem EXCEPT !.ch = m.ch])
               IN  r.rc = conv.res.rc /\ r.out = conv.res.out

\* "5K" has been read: the call succeeded with 5000 and read the byte behind
\* the terminator.
C39_BeyondWitness ==
    /\ SizeReturned /\ conv.str = <<"5", "K">> /\ ~conv.prefer_iec
    /\ conv.res.rc = CARGS_OK /\ conv.res.out = BigOfInt(5000)
    /\ conv.res.beyond

====
